---- MODULE Spec2Model ----
(***************************************************************************)
(* Model of url_filter: the querystring lookup parser (LookupConfig), the  *)
(* leaf resolver (Filter.get_spec) and the tree resolver                   *)
(* (FilterSet.get_specs / FilterSet.get_spec).                             *)
(*                                                                         *)
(* Text is modelled at character level: a Python string is a sequence of   *)
(* one-character strings, so that str.split, str.replace, the key regex    *)
(* and int() are computed, not assumed.                                    *)
(***************************************************************************)
EXTENDS Integers, Sequences, FiniteSets, TLC

(***************************************************************************)
(* Bounds of the model.                                                    *)
(***************************************************************************)
\* largest number of (key, value) pairs in one querystring
MaxPairs == 2

(***************************************************************************)
(* Characters and strings.                                                 *)
(***************************************************************************)
Letters ==
    {"a", "b", "c", "d", "e", "f", "g", "h", "i", "j", "k", "l", "m",
     "n", "o", "p", "q", "r", "s", "t", "u", "v", "w", "x", "y", "z",
     "T", "F"}

Digits == {"0", "1", "2", "3", "4", "5", "6", "7", "8", "9"}

\* regex class \w
IsWordChar(c) == c \in Letters \/ c \in Digits \/ c = "_"

\* regex class [^\d\W]
IsIdentStart(c) == IsWordChar(c) /\ c \notin Digits

\* django.db.models.constants.LOOKUP_SEP
LOOKUP_SEP == <<"_", "_">>

\* str.startswith at offset i
StartsWithAt(s, i, pre) ==
    /\ i + Len(pre) - 1 <= Len(s)
    /\ SubSeq(s, i, i + Len(pre) - 1) = pre

\* str.replace(ch, '')
Remove(s, ch) == SelectSeq(s, LAMBDA c : c # ch)

\* str.split(sep): left to right, non-overlapping occurrences of sep
RECURSIVE SplitFrom(_, _, _, _)
SplitFrom(s, sep, start, i) ==
    IF i > Len(s)
    THEN <<SubSeq(s, start, Len(s))>>
    ELSE IF StartsWithAt(s, i, sep)
         THEN <<SubSeq(s, start, i - 1)>>
              \o SplitFrom(s, sep, i + Len(sep), i + Len(sep))
         ELSE SplitFrom(s, sep, start, i + 1)

Split(s, sep) == SplitFrom(s, sep, 1, 1)

\* sep.join(parts)
RECURSIVE Join(_, _)
Join(parts, sep) ==
    IF parts = <<>> THEN <<>>
    ELSE IF Len(parts) = 1 THEN parts[1]
    ELSE parts[1] \o sep \o Join(Tail(parts), sep)

\* LOOKUP_RE: an identifier head, then any number of groups made of "_", an
\* optional second "_" and an identifier, then an optional "!", anchored at
\* both ends.  It is matched by running the pattern's position automaton
\* over the key.  Positions: "start"; "word" (inside the word run of the head
\* or of a group); "sep1" (after a group's first "_"); "sep2" (after its
\* optional second "_"); "bang" (after the optional "!").
ReStep(q, c) ==
    CASE q = "start" -> IF IsIdentStart(c) THEN {"word"} ELSE {}
      [] q = "word"  -> (IF IsWordChar(c) THEN {"word"} ELSE {})
                        \cup (IF c = "_" THEN {"sep1"} ELSE {})
                        \cup (IF c = "!" THEN {"bang"} ELSE {})
      [] q = "sep1"  -> (IF c = "_" THEN {"sep2"} ELSE {})
                        \cup (IF IsIdentStart(c) THEN {"word"} ELSE {})
      [] q = "sep2"  -> IF IsIdentStart(c) THEN {"word"} ELSE {}
      [] OTHER       -> {}

RECURSIVE ReRun(_, _, _)
ReRun(qs, s, i) ==
    IF i > Len(s) THEN qs
    ELSE ReRun(UNION {ReStep(q, s[i]) : q \in qs}, s, i + 1)

LOOKUP_RE(key) == ReRun({"start"}, key, 1) \cap {"word", "bang"} # {}

\* a slip that accepts every key
validate_any_key(key) == TRUE

\* FilterSet.validate_key: TRUE when filter_key_validator accepts the key
validate_key(key) == LOOKUP_RE(key)

(***************************************************************************)
(* Names used by the declared filtersets and by the querystrings, spelled  *)
(* as character sequences.                                                 *)
(***************************************************************************)
Name ==
    [field |-> <<"f", "i", "e", "l", "d">>,
     bar |-> <<"b", "a", "r">>,
     id |-> <<"i", "d">>,
     other |-> <<"o", "t", "h", "e", "r">>,
     stuff |-> <<"s", "t", "u", "f", "f">>,
     thing |-> <<"t", "h", "i", "n", "g">>,
     page |-> <<"p", "a", "g", "e">>,
     foo |-> <<"f", "o", "o">>,
     a |-> <<"a">>,
     b |-> <<"b">>,
     a_dot_b |-> <<"a", ".", "b">>,
     Foo |-> <<"F", "o", "o">>,
     publications |-> <<"p", "u", "b", "l", "i", "c", "a", "t", "i", "o", "n", "s">>,
     reporter |-> <<"r", "e", "p", "o", "r", "t", "e", "r">>,
     articles |-> <<"a", "r", "t", "i", "c", "l", "e", "s">>,
     created |-> <<"c", "r", "e", "a", "t", "e", "d">>,
     django |-> <<"d", "j", "a", "n", "g", "o">>,
     sqlalchemy |-> <<"s", "q", "l", "a", "l", "c", "h", "e", "m", "y">>]

Lookup ==
    [contains |-> <<"c", "o", "n", "t", "a", "i", "n", "s">>,
     day |-> <<"d", "a", "y">>,
     endswith |-> <<"e", "n", "d", "s", "w", "i", "t", "h">>,
     exact |-> <<"e", "x", "a", "c", "t">>,
     gt |-> <<"g", "t">>,
     gte |-> <<"g", "t", "e">>,
     hour |-> <<"h", "o", "u", "r">>,
     icontains |-> <<"i", "c", "o", "n", "t", "a", "i", "n", "s">>,
     iendswith |-> <<"i", "e", "n", "d", "s", "w", "i", "t", "h">>,
     iexact |-> <<"i", "e", "x", "a", "c", "t">>,
     in |-> <<"i", "n">>,
     iregex |-> <<"i", "r", "e", "g", "e", "x">>,
     isnull |-> <<"i", "s", "n", "u", "l", "l">>,
     istartswith |-> <<"i", "s", "t", "a", "r", "t", "s", "w", "i", "t", "h">>,
     lt |-> <<"l", "t">>,
     lte |-> <<"l", "t", "e">>,
     minute |-> <<"m", "i", "n", "u", "t", "e">>,
     month |-> <<"m", "o", "n", "t", "h">>,
     range |-> <<"r", "a", "n", "g", "e">>,
     regex |-> <<"r", "e", "g", "e", "x">>,
     second |-> <<"s", "e", "c", "o", "n", "d">>,
     startswith |-> <<"s", "t", "a", "r", "t", "s", "w", "i", "t", "h">>,
     week_day |-> <<"w", "e", "e", "k", "_", "d", "a", "y">>,
     year |-> <<"y", "e", "a", "r">>]

\* DjangoFilterBackend.supported_lookups
supported_lookups ==
    {Lookup.contains, Lookup.day, Lookup.endswith, Lookup.exact, Lookup.gt, Lookup.gte,
     Lookup.hour, Lookup.icontains, Lookup.iendswith, Lookup.iexact, Lookup.in, Lookup.iregex,
     Lookup.isnull, Lookup.istartswith, Lookup.lt, Lookup.lte, Lookup.minute, Lookup.month,
     Lookup.range, Lookup.regex, Lookup.second, Lookup.startswith, Lookup.week_day, Lookup.year}

(***************************************************************************)
(* Python values.  A value is a record [t, v]: t is the Python type and v  *)
(* the payload (characters of a str, the number of an int, the truth of a  *)
(* bool, the items of a list).  A dict is the data of a LookupConfig and   *)
(* carries that config as its payload.                                     *)
(***************************************************************************)
Py(t, v) == [t |-> t, v |-> v]

\* repr of the plain nested mapping LookupConfig.as_dict() builds from the
\* segments still to walk and the terminal value
RECURSIVE ReprAsDict(_, _)
ReprAsDict(path, val) ==
    IF path = <<>>
    THEN <<"'">> \o val \o <<"'">>
    ELSE <<"{", "'">> \o Head(path) \o <<"'", ":", " ">>
         \o ReprAsDict(Tail(path), val) \o <<"}">>

\* LookupConfig.__repr__
ReprConfig(config) ==
    <<"<", "L", "o", "o", "k", "u", "p", "C", "o", "n", "f", "i", "g", " ">>
    \o config.key \o <<"=", ">">> \o ReprAsDict(config.path, config.val)
    \o <<">">>

\* str() of a value handed to a form field: a str is itself, a dict (always
\* a single entry whose value is a LookupConfig) is its repr
ToText(value) ==
    IF value.t = "str" THEN value.v
    ELSE <<"{", "'">> \o Head(value.v.path) \o <<"'", ":", " ">>
         \o ReprConfig([key |-> value.v.key, path |-> Tail(value.v.path),
                        val |-> value.v.val])
         \o <<"}">>

\* str.lower() on the characters the model uses
LowerChar(c) == CASE c = "T" -> "t" [] c = "F" -> "f" [] OTHER -> c

Lower(s) == [i \in 1..Len(s) |-> LowerChar(s[i])]

DigitVal(c) ==
    CASE c = "0" -> 0 [] c = "1" -> 1 [] c = "2" -> 2 [] c = "3" -> 3
      [] c = "4" -> 4 [] c = "5" -> 5 [] c = "6" -> 6 [] c = "7" -> 7
      [] c = "8" -> 8 [] c = "9" -> 9

\* int() of a text: defined for a non-empty run of digits, optionally signed
IsIntText(s) ==
    \/ /\ s # <<>>
       /\ \A i \in 1..Len(s) : s[i] \in Digits
    \/ /\ Len(s) > 1
       /\ s[1] \in {"-", "+"}
       /\ \A i \in 2..Len(s) : s[i] \in Digits

RECURSIVE DigitsToInt(_, _)
DigitsToInt(s, acc) ==
    IF s = <<>> THEN acc ELSE DigitsToInt(Tail(s), 10 * acc + DigitVal(Head(s)))

IntOf(s) ==
    IF s[1] = "-" THEN 0 - DigitsToInt(Tail(s), 0)
    ELSE IF s[1] = "+" THEN DigitsToInt(Tail(s), 0)
    ELSE DigitsToInt(s, 0)

(***************************************************************************)
(* Django form fields, as far as url_filter uses them: Field.clean is      *)
(* to_python, then validate, then run_validators.  A clean returns         *)
(* [ok, value, errors]; errors is the error_list of the ValidationError.   *)
(***************************************************************************)
CharField == [type |-> "CharField", required |-> TRUE,
              has_min |-> FALSE, min_value |-> 0,
              has_max |-> FALSE, max_value |-> 0]

IntegerField(has_min, min_value, has_max, max_value) ==
    [type |-> "IntegerField", required |-> TRUE,
     has_min |-> has_min, min_value |-> min_value,
     has_max |-> has_max, max_value |-> max_value]

BooleanField(required) ==
    [type |-> "BooleanField", required |-> required,
     has_min |-> FALSE, min_value |-> 0,
     has_max |-> FALSE, max_value |-> 0]

Cleaned(value) == [ok |-> TRUE, value |-> value, errors |-> <<>>]
Rejected(errors) == [ok |-> FALSE, value |-> Py("NoneType", <<>>), errors |-> errors]

\* Field.empty_values, on the values a field can be handed here
IsEmptyValue(value) == value.t = "str" /\ value.v = <<>>

\* forms.CharField.clean
CleanChar(ff, value) ==
    IF IsEmptyValue(value)
    THEN IF ff.required THEN Rejected(<<"required">>) ELSE Cleaned(Py("str", <<>>))
    ELSE Cleaned(Py("str", ToText(value)))

\* Field.run_validators: the value is returned unless a validator objected
Validated(value, errs) ==
    IF errs = <<>> THEN Cleaned(value) ELSE Rejected(errs)

\* forms.IntegerField: MaxValueValidator, then MinValueValidator
IntegerValidators(ff, n) ==
    (IF ff.has_max /\ n > ff.max_value THEN <<"max_value">> ELSE <<>>)
    \o (IF ff.has_min /\ n < ff.min_value THEN <<"min_value">> ELSE <<>>)

\* forms.IntegerField.to_python on the number read, then the validators
CleanIntegerValue(ff, n) == Validated(Py("int", n), IntegerValidators(ff, n))

\* forms.IntegerField.to_python on a non-empty text
CleanIntegerText(ff, text) ==
    IF ~IsIntText(text) THEN Rejected(<<"invalid">>)
    ELSE CleanIntegerValue(ff, IntOf(text))

\* forms.IntegerField.clean
CleanInteger(ff, value) ==
    IF IsEmptyValue(value)
    THEN IF ff.required THEN Rejected(<<"required">>) ELSE Cleaned(Py("NoneType", <<>>))
    ELSE CleanIntegerText(ff, ToText(value))

\* forms.BooleanField.to_python
BooleanToPython(value) ==
    IF value.t = "str"
    THEN /\ Lower(value.v) \notin {<<"f", "a", "l", "s", "e">>, <<"0">>}
         /\ value.v # <<>>
    ELSE TRUE

\* forms.BooleanField.validate
BooleanValidate(ff, b) ==
    IF ~b /\ ff.required THEN Rejected(<<"required">>) ELSE Cleaned(Py("bool", b))

\* forms.BooleanField.clean
CleanBoolean(ff, value) == BooleanValidate(ff, BooleanToPython(value))

\* clean of one of the three plain fields
CleanPlain(ff, value) ==
    CASE ff.type = "CharField" -> CleanChar(ff, value)
      [] ff.type = "IntegerField" -> CleanInteger(ff, value)
      [] ff.type = "BooleanField" -> CleanBoolean(ff, value)

\* url_filter.fields.MultipleValuesField(child, min_values, max_values);
\* max_values = 0 stands for None
MultipleValuesField(child, min_values, max_values) ==
    [type |-> "MultipleValuesField", required |-> TRUE, child |-> child,
     min_values |-> min_values, max_values |-> max_values,
     delimiter |-> <<",">>, all_valid |-> TRUE]

\* MultipleValuesField.many_to_python: the items child.clean accepts, and
\* the first rejection when all_valid is set
RECURSIVE many_to_python(_, _, _)
\* the loop body of many_to_python, given the child's clean r of the item
many_to_python_item(ff, items, acc, r) ==
    IF r.ok THEN many_to_python(ff, Tail(items), Append(acc, r.value))
    ELSE IF ff.all_valid THEN Rejected(r.errors)
    ELSE many_to_python(ff, Tail(items), acc)

many_to_python(ff, items, acc) ==
    IF items = <<>> THEN Cleaned(Py("list", acc))
    ELSE many_to_python_item(ff, items, acc,
                             CleanPlain(ff.child, Py("str", Head(items))))

\* a slip that leaves the MaxLengthValidator out
many_run_validators_min_only(ff, values) ==
    IF values = <<>> THEN <<>>
    ELSE IF ff.min_values # 0 /\ Len(values) < ff.min_values
    THEN <<"min_length">> ELSE <<>>

\* MultipleValuesField.many_run_validators
many_run_validators(ff, values) ==
    IF values = <<>> THEN <<>>
    ELSE (IF ff.min_values # 0 /\ Len(values) < ff.min_values
          THEN <<"min_length">> ELSE <<>>)
         \o (IF ff.max_values # 0 /\ Len(values) > ff.max_values
             THEN <<"max_length">> ELSE <<>>)

\* MultipleValuesField.clean after many_to_python: many_validate, then
\* many_run_validators
CleanManyValues(ff, many) ==
    IF ~many.ok THEN many
    ELSE IF many.value.v = <<>> /\ ff.required THEN Rejected(<<"required">>)
    ELSE Validated(many.value, many_run_validators(ff, many.value.v))

\* MultipleValuesField.clean
CleanMany(ff, value) ==
    IF IsEmptyValue(value)
    THEN IF ff.required THEN Rejected(<<"required">>) ELSE Cleaned(Py("NoneType", <<>>))
    ELSE CleanManyValues(ff, many_to_python(ff, Split(ToText(value), ff.delimiter),
                                          <<>>))

\* form_field.clean(value)
FieldClean(ff, value) ==
    IF ff.type = "MultipleValuesField" THEN CleanMany(ff, value)
    ELSE CleanPlain(ff, value)

(***************************************************************************)
(* LookupConfig.  _generate_lookup_configs only ever builds chains: every  *)
(* nested dict has exactly one entry.  A chain is kept as the flat key,    *)
(* the segments still to walk (path) and the terminal raw value (val):     *)
(* data is the raw value when path is empty and the one-entry dict         *)
(* {Head(path): LookupConfig(key, rest)} otherwise.                        *)
(***************************************************************************)
LookupConfig(key, path, val) ==
    [cls |-> "LookupConfig", key |-> key, path |-> path, val |-> val]

\* isinstance(config.data, dict)
DataIsDict(config) == config.path # <<>>

\* LookupConfig.data, as a Python value
ConfigData(config) ==
    IF DataIsDict(config) THEN Py("dict", config) ELSE Py("str", config.val)

\* LookupConfig.name
ConfigName(config) == Head(config.path)

\* LookupConfig.value: the entry's value, itself a LookupConfig
ConfigValue(config) == LookupConfig(config.key, Tail(config.path), config.val)

\* isinstance(obj, dict) for an object of the model: a LookupConfig is not
\* a dict, whatever its data is
IsInstanceDict(obj) == obj.cls = "dict"

\* LookupConfig.is_key_value: len(self.data) == 1 and
\* not isinstance(self.value, dict)
is_key_value(config) ==
    /\ Cardinality({ConfigName(config)}) = 1
    /\ ~IsInstanceDict(ConfigValue(config))

\* a slip that maps the first segment straight to the terminal value
AsDictOfFirstLevel(config) ==
    IF DataIsDict(config)
    THEN Py("dict", ConfigName(config) :> Py("str", config.val))
    ELSE ConfigData(config)

\* LookupConfig.as_dict, as the plain value it returns: a dict of the
\* entries' own as_dict() when data is a dict, data itself otherwise
RECURSIVE as_dict(_)
as_dict(config) ==
    IF DataIsDict(config)
    THEN Py("dict", ConfigName(config) :> as_dict(ConfigValue(config)))
    ELSE ConfigData(config)

\* LookupConfig.__init__ on plain data: every value of a dict is wrapped
\* in a LookupConfig of the same key, anything else is kept as it is
RECURSIVE LookupConfigInit(_, _)
LookupConfigInit(key, data) ==
    IF data.t = "dict"
    THEN LET k == CHOOSE k \in DOMAIN data.v : TRUE
             inner == LookupConfigInit(key, data.v[k])
         IN  LookupConfig(key, <<k>> \o inner.path, inner.val)
    ELSE LookupConfig(key, <<>>, data.v)

(***************************************************************************)
(* Declared filters.  A declaration maps a node id to the node: a Filter   *)
(* or a FilterSet, already bound (name, parent) as FilterSet.filters binds *)
(* its deep copy.  children is the filterset's dict of filters in          *)
(* iteration order.  source = <<>> and given_lookups = {} stand for None   *)
(* (both are falsy in the code's tests).                                   *)
(***************************************************************************)
Filter(name, parent, src, form_field, given, default_lookup, is_default, no_lookup) ==
    [kind |-> "Filter", name |-> name, parent |-> parent, children |-> <<>>,
     source |-> src, form_field |-> form_field,
     given_lookups |-> given, default_lookup |-> default_lookup,
     is_default |-> is_default, no_lookup |-> no_lookup]

FilterSet(name, parent, children) ==
    [kind |-> "FilterSet", name |-> name, parent |-> parent,
     children |-> children,
     source |-> <<>>, form_field |-> CharField,
     given_lookups |-> {}, default_lookup |-> <<>>,
     is_default |-> FALSE, no_lookup |-> FALSE]

\* a CallableFilter subclass instance: methods are the class's
\* filter_<lookup>_for_<backend> methods, each with the form field that
\* form_field_for_filter gave it (<<>> when undecorated)
CallableFilter(name, parent, form_field, default_lookup, methods) ==
    [kind |-> "CallableFilter", name |-> name, parent |-> parent,
     children |-> <<>>, source |-> <<>>, form_field |-> form_field,
     given_lookups |-> {}, default_lookup |-> default_lookup,
     is_default |-> FALSE, no_lookup |-> FALSE, methods |-> methods]

\* a slip that ignores the explicit source
source_is_name(d, n) == d[n].name

\* BaseFilter.source: self._source or self.name
source(d, n) == IF d[n].source # <<>> THEN d[n].source ELSE d[n].name

\* BaseFilter.components
RECURSIVE components(_, _)
components(d, n) ==
    IF d[n].parent = "None" THEN <<>>
    ELSE components(d, d[n].parent) \o <<source(d, n)>>

\* BaseFilter.root
RECURSIVE root(_, _)
root(d, n) == IF d[n].parent = "None" THEN n ELSE root(d, d[n].parent)

\* hasattr(self.root, 'filter_backend'): FilterSet defines the property,
\* Filter does not
HasFilterBackend(d, n) == d[n].kind = "FilterSet"

\* a method bound to an instance
BoundMethod(self, class_name, name) ==
    [self |-> self, class_name |-> class_name, name |-> name]

\* CallableFilter._get_filter_method_for_lookup: getattr of the method
\* named filter_<lookup>_for_<backend name of the root>; found is FALSE
\* when getattr raises AttributeError
get_filter_method_for_lookup(d, n, lookup) ==
    [found |-> \E m \in d[n].methods :
                  m.lookup = lookup /\ m.backend = d[root(d, n)].backend,
     form_field |-> UNION {IF m.form_field = <<>> THEN {} ELSE {m.form_field[1]} :
                            m \in {x \in d[n].methods :
                                      /\ x.lookup = lookup
                                      /\ x.backend = d[root(d, n)].backend}},
     method |-> BoundMethod(n, Name.Foo,
                            <<"f", "i", "l", "t", "e", "r", "_">> \o lookup
                            \o <<"_", "f", "o", "r", "_">>
                            \o d[root(d, n)].backend)]

\* Filter.lookups, and CallableFilter.lookups, which adds the lookups of
\* the methods written for the root's backend
lookups(d, n) ==
    LET of_filter == IF d[n].given_lookups # {} THEN d[n].given_lookups
                     ELSE IF HasFilterBackend(d, root(d, n))
                     THEN supported_lookups
                     ELSE {}
    IN  IF d[n].kind = "CallableFilter"
        THEN of_filter
             \cup {m.lookup : m \in {x \in d[n].methods :
                                        x.backend = d[root(d, n)].backend}}
        ELSE of_filter

\* a slip that lets every lookup through
LookupAlwaysAllowed(d, n, lookup) == TRUE

\* Filter.get_spec: the test "lookup not in self.lookups", negated
LookupAllowed(d, n, lookup) == lookup \in lookups(d, n)

\* name in self.filters / self.filters[name]
HasFilter(d, n, name) ==
    \E i \in 1..Len(d[n].children) : d[d[n].children[i]].name = name

FilterNamed(d, n, name) ==
    CHOOSE c \in {d[n].children[i] : i \in 1..Len(d[n].children)} :
        d[c].name = name

\* FilterSet.default_filter: the first filter with is_default, or "None"
default_filter(d, n) ==
    LET idx == {i \in 1..Len(d[n].children) : d[d[n].children[i]].is_default}
    IN  IF idx = {} THEN "None"
        ELSE d[n].children[CHOOSE i \in idx : \A j \in idx : i <= j]

\* a slip that lets the root filterset fall back as well
AllowsDefaultFallbackAtRoot(d, n) == default_filter(d, n) # "None"

\* FilterSet.get_spec: "self.default_filter and self is not self.root"
AllowsDefaultFallback(d, n) ==
    default_filter(d, n) # "None" /\ n # root(d, n)

\* MANY_LOOKUP_FIELD_OVERWRITES, LOOKUP_FIELD_OVERWRITES and
\* Filter.get_form_field; CallableFilter.get_form_field first tries the
\* form field of the lookup's method
get_form_field(d, n, lookup) ==
    IF /\ d[n].kind = "CallableFilter"
       /\ get_filter_method_for_lookup(d, n, lookup).form_field # {}
    THEN CHOOSE f \in get_filter_method_for_lookup(d, n, lookup).form_field : TRUE
    ELSE
    CASE lookup = Lookup.in -> MultipleValuesField(d[n].form_field, 1, 0)
      [] lookup = Lookup.range -> MultipleValuesField(d[n].form_field, 2, 2)
      [] lookup = Lookup.isnull -> BooleanField(FALSE)
      [] lookup = Lookup.second -> IntegerField(TRUE, 0, TRUE, 59)
      [] lookup = Lookup.minute -> IntegerField(TRUE, 0, TRUE, 59)
      [] lookup = Lookup.hour -> IntegerField(TRUE, 0, TRUE, 23)
      [] lookup = Lookup.week_day -> IntegerField(TRUE, 1, TRUE, 7)
      [] lookup = Lookup.day -> IntegerField(TRUE, 1, TRUE, 31)
      [] lookup = Lookup.month -> IntegerField(FALSE, 0, FALSE, 0)
      [] lookup = Lookup.year -> IntegerField(TRUE, 0, TRUE, 9999)
      [] OTHER -> d[n].form_field

\* Filter.clean_value
clean_value(d, n, value, lookup) ==
    FieldClean(get_form_field(d, n, lookup), value)

(***************************************************************************)
(* FilterSpec and the outcome of a get_spec call.  An outcome is           *)
(* [kind, spec, errors, cleaned, by, handed]: kind is "spec" (returned),   *)
(* "error" (ValidationError raised, errors its error_list) or "skip"       *)
(* (SkipFilter raised); cleaned tells whether clean_value was called; by   *)
(* is the Filter whose get_spec was reached ("None" when none was) and     *)
(* handed the config it received.                                          *)
(***************************************************************************)
\* filter_callable=None
NoCallable == [self |-> "None", class_name |-> <<>>, name |-> <<>>]

FilterSpec(comps, lookup, value, is_negated) ==
    [components |-> comps, lookup |-> lookup, value |-> value,
     is_negated |-> is_negated, filter_callable |-> NoCallable]

NoSpec == FilterSpec(<<>>, <<>>, Py("NoneType", <<>>), FALSE)

NoConfig == LookupConfig(<<>>, <<>>, <<>>)

Returned(spec, by, handed) ==
    [kind |-> "spec", spec |-> spec, errors |-> <<>>, cleaned |-> TRUE,
     by |-> by, handed |-> handed]

Raised(errors, cleaned, by, handed) ==
    [kind |-> "error", spec |-> NoSpec, errors |-> errors,
     cleaned |-> cleaned, by |-> by, handed |-> handed]

\* a slip that reports an unknown field as a validation failure
UnknownFieldError ==
    [kind |-> "error", spec |-> NoSpec, errors |-> <<"unknown_field">>,
     cleaned |-> FALSE, by |-> "None", handed |-> NoConfig]

\* raise SkipFilter
SkipFilter ==
    [kind |-> "skip", spec |-> NoSpec, errors |-> <<>>, cleaned |-> FALSE,
     by |-> "None", handed |-> NoConfig]

\* '!' in config.key
KeyHasMarker(key) == \E i \in 1..Len(key) : key[i] = "!"

\* Filter.get_spec from the cleaned value c on: the validator's failure
\* propagates, otherwise the FilterSpec is built
FilterSpecOfCleaned(d, n, config, lookup, c) ==
    IF ~c.ok THEN Raised(c.errors, TRUE, n, config)
    ELSE Returned(FilterSpec(components(d, n), lookup, c.value,
                             KeyHasMarker(config.key)),
                  n, config)

\* Filter.get_spec once lookup and value are resolved
FilterGetSpecOf(d, n, config, lookup, value) ==
    IF ~LookupAllowed(d, n, lookup)
    THEN Raised(<<"lookup_not_supported">>, FALSE, n, config)
    ELSE FilterSpecOfCleaned(d, n, config, lookup,
                             clean_value(d, n, value, lookup))

\* a slip that resolves a scalar node to the lookup "exact" whatever the
\* filter's default lookup
ResolvedLookupExact(d, n, config) ==
    IF DataIsDict(config) THEN ConfigName(config) ELSE Lookup.exact

\* Filter.get_spec: the lookup it resolves
ResolvedLookup(d, n, config) ==
    IF DataIsDict(config) THEN ConfigName(config) ELSE d[n].default_lookup

\* Filter.get_spec: the value it resolves
ResolvedValue(config) ==
    IF DataIsDict(config) THEN ConfigData(ConfigValue(config))
    ELSE ConfigData(config)

\* a slip that lets a no_lookup filter take explicit lookups
ExplicitLookupNeverRefused(d, n, config) == FALSE

\* Filter.get_spec: "if self.no_lookup" inside the explicit-lookup branch
ExplicitLookupRefused(d, n, config) == DataIsDict(config) /\ d[n].no_lookup

\* Filter.get_spec
FilterGetSpec(d, n, config) ==
    IF DataIsDict(config) /\ ~is_key_value(config)
    THEN Raised(<<"data_too_complex">>, FALSE, n, config)
    ELSE IF ExplicitLookupRefused(d, n, config)
    THEN Raised(<<"lookup_not_allowed">>, FALSE, n, config)
    ELSE FilterGetSpecOf(d, n, config, ResolvedLookup(d, n, config),
                         ResolvedValue(config))

\* CallableFilter.get_spec on the outcome o of super().get_spec(config):
\* an exception of the super call propagates; otherwise the lookup's
\* method is fetched with getattr and set as the spec's filter_callable
CallableFilterGetSpec(d, n, o) ==
    IF o.kind # "spec" THEN o
    ELSE IF ~get_filter_method_for_lookup(d, n, o.spec.lookup).found
    THEN [o EXCEPT !.kind = "AttributeError", !.spec = NoSpec]
    ELSE [o EXCEPT !.spec.filter_callable =
                       get_filter_method_for_lookup(d, n, o.spec.lookup).method]

RECURSIVE FilterSetGetSpec(_, _, _)
\* self.filters[name].get_spec(value): the child is a filterset or a filter
ChildGetSpec(d, child, value) ==
    IF d[child].kind = "FilterSet" THEN FilterSetGetSpec(d, child, value)
    ELSE FilterGetSpec(d, child, value)

\* FilterSet.get_spec once name and value are set
FilterSetGetSpecOf(d, n, config, name, value) ==
    IF ~HasFilter(d, n, name)
    THEN IF AllowsDefaultFallback(d, n)
         THEN FilterGetSpec(d, default_filter(d, n), config)
         ELSE SkipFilter
    ELSE ChildGetSpec(d, FilterNamed(d, n, name), value)

\* FilterSet.get_spec: the name of a scalar config is the default filter's
\* source
ScalarName(d, df) == IF df = "None" THEN <<>> ELSE source(d, df)

\* FilterSet.get_spec with the default filter df at hand
FilterSetGetSpecWith(d, n, config, df) ==
    IF ~DataIsDict(config) /\ df = "None"
    THEN SkipFilter
    ELSE IF DataIsDict(config)
    THEN FilterSetGetSpecOf(d, n, config, ConfigName(config),
                            ConfigValue(config))
    ELSE FilterSetGetSpecOf(d, n, config, ScalarName(d, df),
                            LookupConfig(config.key, <<>>, config.val))

\* FilterSet.get_spec
FilterSetGetSpec(d, n, config) ==
    FilterSetGetSpecWith(d, n, config, default_filter(d, n))

(***************************************************************************)
(* The declared filtersets: the two of tests/filtersets/test_base.py, one  *)
(* with explicit lookups and a no_lookup filter, and the parent/child pair *)
(* of Filters of tests/test_filters.py (a Filter whose root is a Filter,   *)
(* so no filter backend is reachable).                                     *)
(***************************************************************************)
\* test_get_specs: FooFilterSet(field, bar = BarFilterSet(other, thing))
PlainDeclaration ==
    [root |-> FilterSet(<<>>, "None", <<"field", "bar">>),
     field |-> Filter(Name.field, "root", <<>>, CharField, {}, Lookup.exact,
                      FALSE, FALSE),
     bar |-> FilterSet(Name.bar, "root", <<"other", "thing">>),
     other |-> Filter(Name.other, "bar", Name.stuff, CharField, {}, Lookup.contains,
                      FALSE, FALSE),
     thing |-> Filter(Name.thing, "bar", <<>>, IntegerField(TRUE, 0, TRUE, 15),
                      {}, Lookup.exact, FALSE, FALSE)]

\* test_get_specs_using_default_filter: field and bar.id are default filters
DefaultDeclaration ==
    [root |-> FilterSet(<<>>, "None", <<"field", "bar">>),
     field |-> Filter(Name.field, "root", <<>>, CharField, {}, Lookup.exact,
                      TRUE, FALSE),
     bar |-> FilterSet(Name.bar, "root", <<"id", "other", "thing">>),
     id |-> Filter(Name.id, "bar", <<>>, IntegerField(FALSE, 0, FALSE, 0),
                   {}, Lookup.exact, TRUE, FALSE),
     other |-> Filter(Name.other, "bar", Name.stuff, CharField, {}, Lookup.contains,
                      FALSE, FALSE),
     thing |-> Filter(Name.thing, "bar", <<>>, IntegerField(TRUE, 0, TRUE, 15),
                      {}, Lookup.exact, FALSE, FALSE)]

\* explicit lookups (one of them unknown to the backend, the default lookup
\* of field not among them), a no_lookup filter, a default filter limited
\* to two lookups
LookupsDeclaration ==
    [root |-> FilterSet(<<>>, "None", <<"field", "thing", "bar">>),
     field |-> Filter(Name.field, "root", <<>>, CharField, {Name.foo, Lookup.contains},
                      Lookup.exact, FALSE, FALSE),
     thing |-> Filter(Name.thing, "root", <<>>, IntegerField(TRUE, 0, TRUE, 15),
                      {}, Lookup.exact, FALSE, TRUE),
     bar |-> FilterSet(Name.bar, "root", <<"other", "id">>),
     other |-> Filter(Name.other, "bar", Name.stuff, CharField, {}, Lookup.contains,
                      FALSE, TRUE),
     id |-> Filter(Name.id, "bar", <<>>, IntegerField(FALSE, 0, FALSE, 0),
                   {Lookup.exact, Lookup.isnull}, Lookup.exact, TRUE, FALSE)]

\* a default filter whose explicit source is the name of a sibling filter
AliasedDeclaration ==
    [root |-> FilterSet(<<>>, "None", <<"field", "bar">>),
     field |-> Filter(Name.field, "root", <<>>, CharField, {}, Lookup.exact,
                      FALSE, FALSE),
     bar |-> FilterSet(Name.bar, "root", <<"id", "other">>),
     id |-> Filter(Name.id, "bar", Name.other, IntegerField(FALSE, 0, FALSE, 0),
                   {}, Lookup.exact, TRUE, FALSE),
     other |-> Filter(Name.other, "bar", Name.stuff, CharField, {}, Lookup.contains,
                      FALSE, FALSE)]

\* test_filters.test_get_spec: f.parent = p, both plain Filters
UnboundDeclaration ==
    [parent |-> Filter(<<>>, "None", <<"p", "a", "r", "e", "n", "t">>,
                       CharField, {}, Lookup.exact, FALSE, FALSE),
     child |-> Filter(<<>>, "parent", <<"c", "h", "i", "l", "d">>,
                      CharField, {}, Lookup.exact, FALSE, FALSE),
     given |-> Filter(<<>>, "parent", <<"c", "h", "i", "l", "d">>,
                      IntegerField(FALSE, 0, FALSE, 0), supported_lookups,
                      Lookup.exact, FALSE, FALSE)]

Declarations ==
    [plain |-> PlainDeclaration, default |-> DefaultDeclaration,
     lookups |-> LookupsDeclaration, aliased |-> AliasedDeclaration,
     unbound |-> UnboundDeclaration]

\* the leaf filters of a declaration
FilterNodes(d) == {n \in DOMAIN d : d[n].kind = "Filter"}

(***************************************************************************)
(* Inputs: querystring keys and raw values.                                *)
(***************************************************************************)
\* the key of a path, marker <<"!">> for a negated key and <<>> otherwise
MakeKey(path, marker) == Join(path, LOOKUP_SEP) \o marker

Raw ==
    [v_5 |-> <<"5">>,
     v_100 |-> <<"1", "0", "0">>,
     v_aa |-> <<"a", "a">>,
     v_5_10 |-> <<"5", ",", "1", "0">>,
     v_5_10_15 |-> <<"5", ",", "1", "0", ",", "1", "5">>,
     v_5_100 |-> <<"5", ",", "1", "0", "0">>,
     v_100_5 |-> <<"1", "0", "0", ",", "5">>,
     v_True |-> <<"T", "r", "u", "e">>,
     v_False |-> <<"F", "a", "l", "s", "e">>,
     v_empty |-> <<>>]

\* a key with a "!" inside a segment: the key syntax rejects it, yet with
\* the markers removed it names the filter field
k_bad_field == <<"f", "i", "!", "e", "l", "d">>

Pair(key, value) == [key |-> key, value |-> value]

\* the (key, value) pairs a request's querystring is made of
RequestPairs ==
    {Pair(MakeKey(p, m), Raw.v_5) :
        p \in {<<Name.field>>, <<Name.bar>>, <<Name.bar, Name.id>>},
        m \in {<<>>, <<"!">>}}
    \cup
    {Pair(MakeKey(<<Name.bar>>, <<>>), Raw.v_aa),
     Pair(MakeKey(<<Name.bar, Lookup.isnull>>, <<>>), Raw.v_True),
     Pair(MakeKey(<<Name.bar, Name.page>>, <<>>), Raw.v_5),
     Pair(MakeKey(<<Name.page>>, <<>>), Raw.v_5),
     Pair(k_bad_field, Raw.v_5),
     Pair(MakeKey(<<Name.field, Lookup.contains, Name.foo>>, <<>>), Raw.v_5),
     Pair(MakeKey(<<Name.bar, Name.thing, Lookup.range>>, <<>>), Raw.v_5_10_15),
     Pair(MakeKey(<<Name.bar, Name.thing, Lookup.range>>, <<>>), Raw.v_5_10),
     Pair(MakeKey(<<Name.bar, Name.thing, Lookup.in>>, <<>>), Raw.v_100_5),
     Pair(MakeKey(<<Name.bar, Name.other, Lookup.icontains>>, <<"!">>), Raw.v_aa),
     Pair(MakeKey(<<Name.thing, Lookup.exact>>, <<>>), Raw.v_5)}

\* sequences of at most n elements of S
RECURSIVE SeqsUpTo(_, _)
SeqsUpTo(S, n) ==
    IF n = 0 THEN {<<>>}
    ELSE LET shorter == SeqsUpTo(S, n - 1)
         IN  shorter \cup {Append(q, x) : q \in shorter, x \in S}

\* the configs a direct Filter.get_spec call is handed: a scalar, a lookup
\* and a value, or a lookup followed by one more segment
LeafLookups ==
    {Lookup.exact, Lookup.in, Lookup.range, Lookup.isnull, Lookup.contains, Lookup.gt, Lookup.year, Name.foo}

LeafCalls ==
    [keys |-> {<<"k", "e", "y">>, <<"k", "e", "y", "!">>},
     paths |-> {<<>>} \cup {<<l>> : l \in LeafLookups}
               \cup {<<l, Name.foo>> : l \in LeafLookups},
     values |-> {Raw.v_5, Raw.v_100, Raw.v_aa, Raw.v_5_10, Raw.v_5_10_15,
                 Raw.v_5_100, Raw.v_True, Raw.v_False, Raw.v_empty}]

(***************************************************************************)
(* QueryDict and FilterSet._generate_lookup_configs.                       *)
(***************************************************************************)
\* a slip that keeps only the last value of a repeated key, as
\* QueryDict.items() does
RECURSIVE QueryDictLastValues(_, _)
QueryDictLastValues(query, acc) ==
    IF query = <<>> THEN acc
    ELSE IF \E i \in 1..Len(acc) : acc[i].key = Head(query).key
    THEN QueryDictLastValues(
             Tail(query),
             [i \in 1..Len(acc) |->
                 IF acc[i].key = Head(query).key
                 THEN [acc[i] EXCEPT !.values = <<Head(query).value>>]
                 ELSE acc[i]])
    ELSE QueryDictLastValues(Tail(query),
                             Append(acc, [key |-> Head(query).key,
                                          values |-> <<Head(query).value>>]))

\* QueryDict.lists(): one entry per distinct key, in order of the key's
\* first occurrence, with the key's values in order of occurrence
RECURSIVE QueryDictLists(_, _)
QueryDictLists(query, acc) ==
    IF query = <<>> THEN acc
    ELSE LET p == Head(query)
             at == {i \in 1..Len(acc) : acc[i].key = p.key}
         IN  IF at = {}
             THEN QueryDictLists(Tail(query),
                                 Append(acc, [key |-> p.key,
                                              values |-> <<p.value>>]))
             ELSE QueryDictLists(
                      Tail(query),
                      [i \in 1..Len(acc) |->
                          IF i \in at
                          THEN [acc[i] EXCEPT !.values = Append(@, p.value)]
                          ELSE acc[i]])

\* a slip that splits the key with its marker still on
ConfigOfMarkedKey(key, value) ==
    LookupConfig(key, Split(key, LOOKUP_SEP), value)

\* the config of one key and one of its values: the key without "!" split
\* on the separator, folded around the value
ConfigOf(key, value) ==
    LookupConfig(key, Split(Remove(key, "!"), LOOKUP_SEP), value)

RECURSIVE ConfigsOfLists(_)
ConfigsOfLists(lists) ==
    IF lists = <<>> THEN <<>>
    ELSE LET e == Head(lists)
         IN  [i \in 1..Len(e.values) |-> ConfigOf(e.key, e.values[i])]
             \o ConfigsOfLists(Tail(lists))

\* FilterSet._generate_lookup_configs
generate_lookup_configs(query) == ConfigsOfLists(QueryDictLists(query, <<>>))

(***************************************************************************)
(* FilterSet.get_specs, one step per loop iteration.                       *)
(***************************************************************************)
VARIABLES
    pc,           \* "idle", "loop", "returned", "raised", "called"
    decl,         \* the declaration the request's filterset instantiates
    strict_mode,  \* self.strict_mode
    query,        \* the querystring of the request
    configs,      \* the configs _generate_lookup_configs yields
    idx,          \* position of the loop in configs
    specs,        \* the local list specs
    errors,       \* the local defaultdict errors: key -> messages
    trace,        \* what happened to each config walked so far
    exception,    \* the exception get_specs raised, with its error map
    leaf,         \* the last direct Filter.get_spec call and its outcome
    compared,     \* the last comparison of two FilterSpec objects
    backend,      \* the filter backend instance and its filter() call
    heap          \* the Filter and FilterSet objects alive, by identity

vars == <<pc, decl, strict_mode, query, configs, idx, specs, errors, trace,
          exception, leaf, compared, backend, heap>>

(***************************************************************************)
(* Filter objects by identity.  An object is known by its position in the  *)
(* heap; parent is the position of the parent object (0 for None), filters *)
(* the cached value of FilterSet.filters once computed, and local the      *)
(* dict and the loop position of a filters call under way.  A dict is the  *)
(* sequence of its (name, object) entries.                                 *)
(***************************************************************************)
\* BaseFilter.__init__: parent and name None, is_bound False
Object(cls) ==
    [cls |-> cls, name |-> <<>>, parent |-> 0, is_bound |-> FALSE,
     filters |-> [set |-> FALSE, v |-> <<>>],
     local |-> [active |-> FALSE, v |-> <<>>, pos |-> 1]]

\* the objects the class bodies create:
\*   common = Filter(...)
\*   class BarFilterSet(FilterSet): other = Filter(...); thing = common
\*   class FooFilterSet(FilterSet): field = common; bar = BarFilterSet()
DeclaredObjects ==
    <<Object("Filter"), Object("BarFilterSet"), Object("Filter")>>

\* cls._declared_filters, as FilterSetMeta.__new__ collects it
declared_filters(cls) ==
    CASE cls = "FooFilterSet" -> <<[name |-> Name.field, id |-> 1],
                                   [name |-> Name.bar, id |-> 2]>>
      [] cls = "BarFilterSet" -> <<[name |-> Name.other, id |-> 3],
                                   [name |-> Name.thing, id |-> 1]>>
      [] OTHER -> <<>>

\* the values of the variables before anything is called: no errors
\* collected, no exception raised, no filter called, nothing compared, no
\* filter backend instantiated
Initially ==
    [errors |-> [k \in {} |-> <<>>],
     exception |-> [type |-> "None", errors |-> [k \in {} |-> <<>>]],
     leaf |-> [decl |-> "None", filter |-> "None", config |-> NoConfig,
               outcome |-> SkipFilter],
     compared |-> [a |-> NoSpec, b |-> NoSpec, eq |-> TRUE, hash_eq |-> TRUE],
     backend |-> [cls |-> "None"]]

Init ==
    /\ pc = "idle"
    /\ decl = "None"
    /\ strict_mode = "drop"
    /\ query = <<>>
    /\ configs = <<>>
    /\ idx = 1
    /\ specs = <<>>
    /\ errors = Initially.errors
    /\ trace = <<>>
    /\ exception = Initially.exception
    /\ leaf = Initially.leaf
    /\ compared = Initially.compared
    /\ backend = Initially.backend
    /\ heap = DeclaredObjects

\* a slip that files the messages under the key without its marker
ExtendErrorsUnmarked(errs, key, error_list) ==
    LET bare == Remove(key, "!")
    IN  [k \in DOMAIN errs \cup {bare} |->
            (IF k \in DOMAIN errs THEN errs[k] ELSE <<>>)
            \o (IF k = bare THEN error_list ELSE <<>>)]

\* errors[key].extend(error_list) on the defaultdict
ExtendErrors(errs, key, error_list) ==
    [k \in DOMAIN errs \cup {key} |->
        (IF k \in DOMAIN errs THEN errs[k] ELSE <<>>)
        \o (IF k = key THEN error_list ELSE <<>>)]

\* a slip that raises whatever the strictness
MustRaiseInAnyMode(errs, mode) == DOMAIN errs # {}

\* if errors and self.strict_mode == StrictMode.fail
MustRaise(errs, mode) == DOMAIN errs # {} /\ mode = "fail"

\* what the loop body does with one config: "invalid_key" when validate_key
\* raises, otherwise the outcome of self.get_spec(data)
Event(kind, outcome) == [kind |-> kind, outcome |-> outcome]

\* FilterSet(data=QueryDict(...), strict_mode=...).get_specs() is entered
NewRequest ==
    /\ pc = "idle"
    /\ \E d \in DOMAIN Declarations \ {"unbound"},
          mode \in {"drop", "fail", "empty"},
          q \in SeqsUpTo(RequestPairs, MaxPairs) :
          /\ decl' = d
          /\ strict_mode' = mode
          /\ query' = q
          /\ configs' = generate_lookup_configs(q)
    /\ pc' = "loop"
    /\ idx' = 1
    /\ specs' = <<>>
    /\ errors' = Initially.errors
    /\ trace' = <<>>
    /\ UNCHANGED <<exception, leaf,
                   compared, backend, heap>>

\* validate_key raises: continue
SkipInvalidKey ==
    /\ pc = "loop"
    /\ idx <= Len(configs)
    /\ ~validate_key(configs[idx].key)
    /\ idx' = idx + 1
    /\ trace' = Append(trace, Event("invalid_key", SkipFilter))
    /\ UNCHANGED <<pc, decl, strict_mode, query, configs, specs, errors,
                   exception, leaf,
                   compared, backend, heap>>

\* the try block of the loop body ran self.get_spec(data) with outcome o
\* of the given kind
GetSpecEnded(kind, o) ==
    /\ o.kind = kind
    /\ trace' = Append(trace, Event(kind, o))
    /\ specs' = IF kind = "spec" THEN Append(specs, o.spec) ELSE specs
    /\ errors' = IF kind = "error"
                 THEN ExtendErrors(errors, configs[idx].key, o.errors)
                 ELSE errors

\* get_spec returns: specs.append
AppendSpec ==
    /\ pc = "loop"
    /\ idx <= Len(configs)
    /\ validate_key(configs[idx].key)
    /\ GetSpecEnded("spec",
                    FilterSetGetSpec(Declarations[decl], "root", configs[idx]))
    /\ idx' = idx + 1
    /\ UNCHANGED <<pc, decl, strict_mode, query, configs, exception, leaf,
                   compared, backend, heap>>

\* get_spec raises SkipFilter: pass
PassSkipFilter ==
    /\ pc = "loop"
    /\ idx <= Len(configs)
    /\ validate_key(configs[idx].key)
    /\ GetSpecEnded("skip",
                    FilterSetGetSpec(Declarations[decl], "root", configs[idx]))
    /\ idx' = idx + 1
    /\ UNCHANGED <<pc, decl, strict_mode, query, configs, exception, leaf,
                   compared, backend, heap>>

\* get_spec raises ValidationError: its messages go under the flat key
CollectErrors ==
    /\ pc = "loop"
    /\ idx <= Len(configs)
    /\ validate_key(configs[idx].key)
    /\ GetSpecEnded("error",
                    FilterSetGetSpec(Declarations[decl], "root", configs[idx]))
    /\ idx' = idx + 1
    /\ UNCHANGED <<pc, decl, strict_mode, query, configs, exception, leaf,
                   compared, backend, heap>>

\* after the loop: raise ValidationError(dict(errors))
RaiseValidationError ==
    /\ pc = "loop"
    /\ idx > Len(configs)
    /\ MustRaise(errors, strict_mode)
    /\ pc' = "raised"
    /\ exception' = [type |-> "ValidationError", errors |-> errors]
    /\ UNCHANGED <<decl, strict_mode, query, configs, idx, specs, errors,
                   trace, leaf,
                   compared, backend, heap>>

\* after the loop: return specs
ReturnSpecs ==
    /\ pc = "loop"
    /\ idx > Len(configs)
    /\ ~MustRaise(errors, strict_mode)
    /\ pc' = "returned"
    /\ UNCHANGED <<decl, strict_mode, query, configs, idx, specs, errors,
                   trace, exception, leaf,
                   compared, backend, heap>>

\* Filter.get_spec called on a filter directly, as the unit tests do
CallFilterGetSpec ==
    /\ pc = "idle"
    /\ \E d \in DOMAIN Declarations :
          \E n \in FilterNodes(Declarations[d]), k \in LeafCalls.keys,
             p \in LeafCalls.paths, v \in LeafCalls.values :
             leaf' = [decl |-> d, filter |-> n,
                      config |-> LookupConfig(k, p, v),
                      outcome |-> FilterGetSpec(Declarations[d], n,
                                                LookupConfig(k, p, v))]
    /\ pc' = "called"
    /\ UNCHANGED <<decl, strict_mode, query, configs, idx, specs, errors,
                   trace, exception,
                   compared, backend, heap>>

Next ==
    \/ NewRequest
    \/ SkipInvalidKey
    \/ AppendSpec
    \/ PassSkipFilter
    \/ CollectErrors
    \/ RaiseValidationError
    \/ ReturnSpecs
    \/ CallFilterGetSpec

Spec == Init /\ [][Next]_vars

(***************************************************************************)
(* FilterSpec.__repr__, __hash__ and __eq__.                               *)
(***************************************************************************)
\* FilterSpec(components, lookup, value, is_negated, filter_callable): the
\* callable is a bound method, known by the object it is bound to, the
\* name of that object's class and the method's name
FilterSpecVia(comps, lookup, value, is_negated, filter_callable) ==
    [components |-> comps, lookup |-> lookup, value |-> value,
     is_negated |-> is_negated, filter_callable |-> filter_callable]

\* FilterSpec.is_callable
is_callable(spec) == spec.filter_callable # NoCallable

\* the character of a decimal digit
DigitChar(n) == CHOOSE c \in Digits : DigitVal(c) = n

\* str(n) of a natural number
RECURSIVE NatRepr(_)
NatRepr(n) ==
    IF n < 10 THEN <<DigitChar(n)>>
    ELSE NatRepr(n \div 10) \o <<DigitChar(n % 10)>>

\* repr() of a cleaned value
RECURSIVE ValueRepr(_)
ValueRepr(value) ==
    CASE value.t = "str" -> <<"'">> \o value.v \o <<"'">>
      [] value.t = "int" -> NatRepr(value.v)
      [] value.t = "bool" -> IF value.v THEN <<"T", "r", "u", "e">>
                             ELSE <<"F", "a", "l", "s", "e">>
      [] value.t = "NoneType" -> <<"N", "o", "n", "e">>
      [] value.t = "list" ->
            <<"[">>
            \o Join([k \in 1..Len(value.v) |-> ValueRepr(value.v[k])],
                    <<",", " ">>)
            \o <<"]">>

\* FilterSpec.__repr__: callable_repr
CallableRepr(spec) ==
    IF is_callable(spec)
    THEN <<" ", "v", "i", "a", " ">> \o spec.filter_callable.class_name
         \o <<".">> \o spec.filter_callable.name
    ELSE <<>>

\* FilterSpec.__repr__
FilterSpecRepr(spec) ==
    <<"<", "F", "i", "l", "t", "e", "r", "S", "p", "e", "c", " ">>
    \o Join(spec.components, <<".">>) \o <<" ">>
    \o (IF spec.is_negated THEN <<"N", "O", "T", " ">> ELSE <<>>)
    \o spec.lookup \o <<" ">> \o ValueRepr(spec.value)
    \o CallableRepr(spec) \o <<">">>

\* hash() of a text: equal texts hash alike; no two texts of the bounded
\* inputs are taken to collide
StrHash(text) == [hashed |-> text]

\* FilterSpec.__hash__
FilterSpecHash(spec) == StrHash(FilterSpecRepr(spec))

\* FilterSpec.__eq__
FilterSpecEq(a, b) == FilterSpecHash(a) = FilterSpecHash(b)

\* the specs compared: built by hand as the unit tests do
ComparedSpecs ==
    {FilterSpecVia(c, l, v, n, f) :
        c \in {<<Name.a, Name.b>>, <<Name.a_dot_b>>, <<Name.a>>},
        l \in {Lookup.exact, Lookup.contains},
        v \in {Py("str", Raw.v_5), Py("int", 5),
               Py("list", <<Py("int", 5), Py("int", 10)>>),
               Py("bool", TRUE)},
        n \in BOOLEAN,
        f \in {NoCallable, BoundMethod("f", Name.Foo, Name.foo),
               BoundMethod("g", Name.Foo, Name.foo)}}

\* a == b and hash(a) == hash(b) are evaluated for two specs
CompareFilterSpecs ==
    /\ pc = "idle"
    /\ \E a \in ComparedSpecs, b \in ComparedSpecs :
          compared' = [a |-> a, b |-> b, eq |-> FilterSpecEq(a, b),
                       hash_eq |-> FilterSpecHash(a) = FilterSpecHash(b)]
    /\ pc' = "compared"
    /\ UNCHANGED <<decl, strict_mode, query, configs, idx, specs, errors,
                   trace, exception, leaf, backend, heap>>

SpecFilterSpec == Init /\ [][CompareFilterSpecs]_vars

(***************************************************************************)
(* Filter backends: what a bound spec list does to a queryset.             *)
(***************************************************************************)
MaxSpecs == 2

MaxBinds == 2

\* model._meta.get_field(name) for the models of the test project: Article
\* has a many-to-many field publications and a foreign key reporter, and
\* Reporter has the reverse one-to-many relation articles
get_field(model, name) ==
    CASE model = "Article" /\ name = Name.publications ->
            [exists |-> TRUE, one_to_many |-> FALSE, many_to_many |-> TRUE,
             related_model |-> "Publication"]
      [] model = "Article" /\ name = Name.reporter ->
            [exists |-> TRUE, one_to_many |-> FALSE, many_to_many |-> FALSE,
             related_model |-> "Reporter"]
      [] model = "Reporter" /\ name = Name.articles ->
            [exists |-> TRUE, one_to_many |-> TRUE, many_to_many |-> FALSE,
             related_model |-> "Article"]
      [] model \in {"Article", "Publication", "Reporter"} /\ name = Name.id ->
            [exists |-> TRUE, one_to_many |-> FALSE, many_to_many |-> FALSE,
             related_model |-> "None"]
      [] OTHER ->
            [exists |-> FALSE, one_to_many |-> FALSE, many_to_many |-> FALSE,
             related_model |-> "None"]

\* _is_to_many without the recursion into the related model
is_to_many_direct(model, comps) ==
    IF comps = <<>> THEN FALSE
    ELSE IF ~get_field(model, Head(comps)).exists THEN FALSE
    ELSE \/ get_field(model, Head(comps)).one_to_many
         \/ get_field(model, Head(comps)).many_to_many

\* DjangoFilterBackend._is_to_many of django_ufilter; FieldDoesNotExist is
\* suppressed and the method then returns None, which is falsy
RECURSIVE is_to_many(_, _)
is_to_many(model, comps) ==
    IF comps = <<>> THEN FALSE
    ELSE IF ~get_field(model, Head(comps)).exists THEN FALSE
    ELSE \/ get_field(model, Head(comps)).one_to_many
         \/ get_field(model, Head(comps)).many_to_many
         \/ is_to_many(get_field(model, Head(comps)).related_model,
                       Tail(comps))

\* the rows filtered: three articles with their publications and reporter
Articles ==
    <<Py("dict", (Name.id :> Py("int", 1))
             @@ (Name.publications :>
                    Py("list", <<Py("dict", Name.id :> Py("int", 1)),
                             Py("dict", Name.id :> Py("int", 2))>>))
             @@ (Name.reporter :>
                    Py("dict", (Name.id :> Py("int", 1))
                           @@ (Name.articles :>
                                  Py("list", <<Py("dict", Name.id :> Py("int", 1)),
                                           Py("dict", Name.id :> Py("int", 2))>>))))),
      Py("dict", (Name.id :> Py("int", 2))
             @@ (Name.publications :> Py("list", <<Py("dict", Name.id :> Py("int", 2))>>))
             @@ (Name.reporter :>
                    Py("dict", (Name.id :> Py("int", 1))
                           @@ (Name.articles :>
                                  Py("list", <<Py("dict", Name.id :> Py("int", 1)),
                                           Py("dict", Name.id :> Py("int", 2))>>))))),
      Py("dict", (Name.id :> Py("int", 3))
             @@ (Name.publications :> Py("list", <<>>))
             @@ (Name.reporter :>
                    Py("dict", (Name.id :> Py("int", 2))
                           @@ (Name.articles :>
                                  Py("list", <<Py("dict", Name.id :> Py("int", 3))>>)))))>>

\* the values a row has along a path of relations: a to-many relation
\* contributes one value per related row, as the join the database makes
RECURSIVE ValuesAt(_, _)
ValuesAt(value, path) ==
    IF value.t = "list"
    THEN UNION {ValuesAt(value.v[k], path) : k \in 1..Len(value.v)}
    ELSE IF path = <<>> THEN {value}
    ELSE IF value.t = "dict" /\ Head(path) \in DOMAIN value.v
         THEN ValuesAt(value.v[Head(path)], Tail(path))
         ELSE {}

\* the comparison the database makes for a lookup on integer columns
LookupHolds(lookup, value, wanted) ==
    CASE lookup = Lookup.exact -> value = wanted
      [] lookup = Lookup.gt -> value.v > wanted.v
      [] OTHER -> FALSE

\* one keyword argument of QuerySet.filter / exclude: Django splits the
\* keyword at LOOKUP_SEP into the path and the lookup
KeywordHolds(row, key, wanted) ==
    \E value \in ValuesAt(row, SubSeq(Split(key, LOOKUP_SEP), 1,
                                     Len(Split(key, LOOKUP_SEP)) - 1)) :
        LookupHolds(Split(key, LOOKUP_SEP)[Len(Split(key, LOOKUP_SEP))],
                    value, wanted)

\* QuerySet.filter(**kwargs): the rows that satisfy every keyword
QuerySetFilter(queryset, kwargs) ==
    [queryset EXCEPT !.rows =
        SelectSeq(@, LAMBDA row :
            \A key \in DOMAIN kwargs : KeywordHolds(row, key, kwargs[key]))]

\* QuerySet.exclude(**kwargs): the rows that do not satisfy all keywords
\* together; without keywords nothing is excluded
QuerySetExclude(queryset, kwargs) ==
    IF DOMAIN kwargs = {} THEN queryset
    ELSE [queryset EXCEPT !.rows =
            SelectSeq(@, LAMBDA row :
                ~(\A key \in DOMAIN kwargs :
                      KeywordHolds(row, key, kwargs[key])))]

\* DjangoFilterBackend._prepare_spec
prepare_spec(spec) ==
    Join(spec.components, LOOKUP_SEP) \o LOOKUP_SEP \o spec.lookup

\* DjangoFilterBackend.includes (negated = FALSE) and excludes (TRUE)
SpecsNegated(regular, negated) ==
    SelectSeq(regular, LAMBDA spec : spec.is_negated = negated)

\* {self._prepare_spec(i): i.value for i in ...}: a later spec overwrites
\* an earlier one that prepares the same keyword
KeywordDict(given) ==
    [key \in {prepare_spec(given[k]) : k \in 1..Len(given)} |->
        given[CHOOSE k \in 1..Len(given) :
                  /\ prepare_spec(given[k]) = key
                  /\ \A j \in (k + 1)..Len(given) :
                        prepare_spec(given[j]) # key].value]

\* DjangoFilterBackend.filter_by_specs of url_filter: one filter call, one
\* exclude call, then distinct()
DjangoFilterBySpecs(regular, queryset) ==
    [QuerySetExclude(
        QuerySetFilter(queryset, KeywordDict(SpecsNegated(regular, FALSE))),
        KeywordDict(SpecsNegated(regular, TRUE)))
     EXCEPT !.distinct = TRUE]

\* DjangoFilterBackend._is_any_to_many of django_ufilter
is_any_to_many(regular) ==
    \E k \in 1..Len(regular) : is_to_many("Article", regular[k].components)

\* DjangoFilterBackend.filter_by_specs of django_ufilter: one filter call,
\* one exclude call per keyword of the exclude dict, and distinct() when a
\* spec crosses a to-many relation
UFilterBySpecs(regular, queryset) ==
    [QuerySetFilter(queryset, KeywordDict(SpecsNegated(regular, FALSE)))
     EXCEPT !.rows =
                SelectSeq(@, LAMBDA row :
                    \A key \in DOMAIN KeywordDict(SpecsNegated(regular, TRUE)) :
                        ~KeywordHolds(row, key,
                            KeywordDict(SpecsNegated(regular, TRUE))[key])),
            !.distinct =
                @ \/ /\ is_any_to_many(regular)
                     /\ \/ SpecsNegated(regular, FALSE) # <<>>
                        \/ SpecsNegated(regular, TRUE) # <<>>]

\* SQLAlchemyFilterBackend.build_clause evaluated on a row: the clause is
\* on the column at the end of the joined path, and not_() wraps the clause
\* of a negated spec
ClauseHolds(row, spec) ==
    \E value \in ValuesAt(row, spec.components) :
        LookupHolds(spec.lookup, value, spec.value) # spec.is_negated

\* SQLAlchemyFilterBackend.filter_by_specs: query.filter(*conditions)
SQLAlchemyFilterBySpecs(regular, queryset) ==
    [queryset EXCEPT !.rows =
        SelectSeq(@, LAMBDA row :
            \A k \in 1..Len(regular) : ClauseHolds(row, regular[k]))]

\* datetime.weekday() of a datetime's date: the proleptic Gregorian ordinal
\* (1 for 0001-01-01, a Monday) plus 6, modulo 7, so Monday is 0 and
\* Sunday 6
weekday(date) ==
    LET y == date.year - 1
        leap == /\ date.year % 4 = 0
                /\ (date.year % 100 # 0 \/ date.year % 400 = 0)
        before == <<0, 31, 59, 90, 120, 151, 181, 212, 243, 273, 304, 334>>
    IN  (y * 365 + (y \div 4) - (y \div 100) + (y \div 400)
         + before[date.month] + (IF date.month > 2 /\ leap THEN 1 ELSE 0)
         + date.day + 6) % 7

\* PlainFilterBackend._compare_week_day
compare_week_day(value, spec) ==
    ((weekday(value.v) + 1) % 7) + 1 = spec.value.v

\* whether PlainFilterBackend._compare_<lookup> raises: _compare_week_day
\* calls value.weekday(), which only a datetime has
ComparatorRaises(value, spec) ==
    spec.lookup = Lookup.week_day /\ value.t # "datetime"

\* the try block of _filter_by_spec_and_value: the comparator's result
\* (_compare_exact is ==), and True when it raises
PlainCompare(value, spec) ==
    IF ComparatorRaises(value, spec) THEN TRUE
    ELSE IF spec.lookup = Lookup.week_day THEN compare_week_day(value, spec)
    ELSE value.t = spec.value.t /\ value = spec.value

\* a slip that asks every element of a list to match, all() for any()
RECURSIVE PlainFilterAllOfList(_, _, _)
PlainFilterAllOfList(item, comps, spec) ==
    IF comps = <<>> /\ item.t # "list" THEN PlainCompare(item, spec)
    ELSE IF item.t = "list"
    THEN \A k \in 1..Len(item.v) :
            PlainFilterAllOfList(item.v[k], comps, spec)
    ELSE IF item.t = "dict" /\ Head(comps) \in DOMAIN item.v
    THEN PlainFilterAllOfList(item.v[Head(comps)], Tail(comps), spec)
    ELSE PlainFilterAllOfList(Py("dict", <<>>), Tail(comps), spec)

\* PlainFilterBackend._filter_by_spec_and_value; item.get(name, {}) gives
\* an empty dict for a missing key, and dictify() of a value that is not a
\* dict has none of the names used here
RECURSIVE PlainFilterBySpecAndValue(_, _, _)
PlainFilterBySpecAndValue(item, comps, spec) ==
    IF comps = <<>> /\ item.t # "list" THEN PlainCompare(item, spec)
    ELSE IF item.t = "list"
    THEN \E k \in 1..Len(item.v) :
            PlainFilterBySpecAndValue(item.v[k], comps, spec)
    ELSE IF item.t = "dict" /\ Head(comps) \in DOMAIN item.v
    THEN PlainFilterBySpecAndValue(item.v[Head(comps)], Tail(comps), spec)
    ELSE PlainFilterBySpecAndValue(Py("dict", <<>>), Tail(comps), spec)

\* PlainFilterBackend._filter_by_spec
PlainFilterBySpec(item, spec) ==
    PlainFilterBySpecAndValue(item, spec.components, spec) # spec.is_negated

\* PlainFilterBackend.filter_by_specs
PlainFilterBySpecs(regular, queryset) ==
    [queryset EXCEPT !.rows =
        SelectSeq(@, LAMBDA item :
            \A k \in 1..Len(regular) : PlainFilterBySpec(item, regular[k]))]

\* filter_by_specs of the backend class
filter_by_specs(cls, regular, queryset) ==
    CASE cls = "django" -> DjangoFilterBySpecs(regular, queryset)
      [] cls = "django_ufilter" -> UFilterBySpecs(regular, queryset)
      [] cls = "sqlalchemy" -> SQLAlchemyFilterBySpecs(regular, queryset)
      [] cls = "plain" -> PlainFilterBySpecs(regular, queryset)

\* [i for i in self.specs if i.is_callable] (callable = TRUE) and
\* [i for i in self.specs if not i.is_callable] (FALSE)
SpecsCallable(given, callable) ==
    SelectSeq(given, LAMBDA spec : is_callable(spec) = callable)

\* cached_property regular_specs / callable_specs: computed from self.specs
\* at the first read and kept in the instance from then on
CachedSpecs(cache, given, callable) ==
    IF cache.set THEN cache
    ELSE [set |-> TRUE, v |-> SpecsCallable(given, callable)]

\* the base class of django_ufilter's backend partitions the bound specs
\* into regular and callable ones whenever it applies them
PartitionedSpecs(given, callable) ==
    [set |-> FALSE, v |-> SpecsCallable(given, callable)]

\* self.regular_specs (callable = FALSE) / self.callable_specs (TRUE)
ReadSpecs(b, callable) ==
    IF b.cls = "django_ufilter" THEN PartitionedSpecs(b.specs, callable)
    ELSE CachedSpecs(IF callable THEN b.callables ELSE b.regular,
                     b.specs, callable)

\* spec.filter_callable(queryset=queryset, spec=spec): the filter method
\* keeps the rows the spec describes
ApplyCallable(spec, queryset) ==
    [queryset EXCEPT !.rows = SelectSeq(@, LAMBDA row : ClauseHolds(row, spec))]

\* the specs bound: the second lookup is one the backend class evaluates;
\* the plain backend is also given a negated spec on the items of a list
BackendSpecs(cls) ==
    {FilterSpecVia(<<Name.id>>, Lookup.exact, Py("int", 1), FALSE, NoCallable),
     FilterSpecVia(<<Name.id>>, Lookup.exact, Py("int", 2), FALSE, NoCallable),
     FilterSpecVia(<<Name.id>>, Lookup.exact, Py("int", 1), TRUE, NoCallable),
     FilterSpecVia(<<Name.reporter, Name.id>>, Lookup.exact, Py("int", 1), TRUE,
                   NoCallable),
     FilterSpecVia(<<Name.publications, Name.id>>, Lookup.exact, Py("int", 2),
                   FALSE, NoCallable),
     FilterSpecVia(<<Name.reporter, Name.articles, Name.id>>, Lookup.exact,
                   Py("int", 3), FALSE, NoCallable),
     FilterSpecVia(<<Name.id>>,
                   IF cls = "plain" THEN Lookup.week_day ELSE Lookup.gt,
                   Py("int", 1), FALSE, NoCallable),
     FilterSpecVia(<<Name.id>>,
                   IF cls = "plain" THEN Lookup.week_day ELSE Lookup.gt,
                   Py("int", 1), TRUE, NoCallable),
     FilterSpecVia(<<Name.id>>, Lookup.exact, Py("int", 1), FALSE,
                   BoundMethod("f", Name.Foo, Name.foo)),
     FilterSpecVia(<<Name.reporter, Name.id>>, Lookup.exact, Py("int", 1), FALSE,
                   BoundMethod("f", Name.Foo, Name.foo))}
    \cup
    (IF cls = "plain"
     THEN {FilterSpecVia(<<Name.publications, Name.id>>, Lookup.exact,
                         Py("int", 2), TRUE, NoCallable)}
     ELSE {})

\* Backend(queryset)
NewBackend ==
    /\ pc = "idle"
    /\ \E cls \in {"django", "django_ufilter", "sqlalchemy", "plain"} :
          backend' = [cls |-> cls,
                      queryset |-> [rows |-> Articles, distinct |-> FALSE],
                      specs |-> <<>>, binds |-> 0,
                      regular |-> [set |-> FALSE, v |-> <<>>],
                      callables |-> [set |-> FALSE, v |-> <<>>],
                      phase |-> "ready",
                      qs |-> [rows |-> Articles, distinct |-> FALSE],
                      pos |-> 1, bound |-> <<>>,
                      by_specs |-> [rows |-> Articles, distinct |-> FALSE],
                      calls |-> <<>>, returned |-> FALSE]
    /\ pc' = "backend"
    /\ UNCHANGED <<decl, strict_mode, query, configs, idx, specs, errors,
                   trace, exception, leaf, compared, heap>>

\* backend.bind(specs)
Bind ==
    /\ pc = "backend"
    /\ backend.phase = "ready"
    /\ backend.binds < MaxBinds
    /\ \E given \in SeqsUpTo(BackendSpecs(backend.cls), MaxSpecs) :
          backend' = [backend EXCEPT !.specs = given, !.binds = @ + 1,
                                     !.returned = FALSE,
                                     !.bound = <<>>, !.calls = <<>>,
                                     !.qs = backend.queryset,
                                     !.by_specs = backend.queryset]
    /\ UNCHANGED <<pc, decl, strict_mode, query, configs, idx, specs, errors,
                   trace, exception, leaf, compared, heap>>

\* filter() up to the loop of filter_by_callables: the two properties are
\* read, filter_by_specs is applied to self.queryset
Begun(b, regular, callables, filtered) ==
    [b EXCEPT !.regular = regular, !.callables = callables,
              !.qs = filtered, !.by_specs = filtered,
              !.phase = "callables", !.pos = 1, !.bound = b.specs,
              !.calls = <<>>, !.returned = FALSE]

FilterBySpecs ==
    /\ pc = "backend"
    /\ backend.phase = "ready"
    /\ backend' = Begun(backend, ReadSpecs(backend, FALSE),
                        ReadSpecs(backend, TRUE),
                        filter_by_specs(backend.cls,
                                        ReadSpecs(backend, FALSE).v,
                                        backend.queryset))
    /\ UNCHANGED <<pc, decl, strict_mode, query, configs, idx, specs, errors,
                   trace, exception, leaf, compared, heap>>

\* one iteration of the loop of filter_by_callables
CallFilterCallable ==
    /\ pc = "backend"
    /\ backend.phase = "callables"
    /\ backend.pos <= Len(backend.callables.v)
    /\ backend' =
          [backend EXCEPT
              !.qs = ApplyCallable(backend.callables.v[backend.pos], @),
              !.calls = Append(@, [spec |-> backend.callables.v[backend.pos],
                                   queryset |-> backend.qs]),
              !.pos = @ + 1]
    /\ UNCHANGED <<pc, decl, strict_mode, query, configs, idx, specs, errors,
                   trace, exception, leaf, compared, heap>>

\* filter() returns the queryset
ReturnQueryset ==
    /\ pc = "backend"
    /\ backend.phase = "callables"
    /\ backend.pos > Len(backend.callables.v)
    /\ backend' = [backend EXCEPT !.phase = "ready", !.returned = TRUE]
    /\ UNCHANGED <<pc, decl, strict_mode, query, configs, idx, specs, errors,
                   trace, exception, leaf, compared, heap>>

SpecBackend ==
    Init /\ [][NewBackend \/ Bind \/ FilterBySpecs \/ CallFilterCallable
               \/ ReturnQueryset]_vars

(***************************************************************************)
(* FilterSet.validate_key on keys of every shape.                          *)
(***************************************************************************)
MaxKeyLen == 5

\* validate_key(key) is called on a key made of a letter, a digit, the
\* underscore and the negation marker; the config of the key is generated
\* as get_specs does before it validates
ValidateKey ==
    /\ pc = "idle"
    /\ \E key \in SeqsUpTo({"a", "1", "_", "!"}, MaxKeyLen) \ {<<>>} :
          /\ query' = <<Pair(key, Raw.v_5)>>
          /\ configs' = generate_lookup_configs(<<Pair(key, Raw.v_5)>>)
          /\ pc' = IF validate_key(key) THEN "valid" ELSE "invalid"
    /\ UNCHANGED <<decl, strict_mode, idx, specs, errors, trace, exception,
                   leaf, compared, backend, heap>>

SpecKeys == Init /\ [][ValidateKey]_vars

(***************************************************************************)
(* The plain backend on items with a creation time, as the DATA of         *)
(* tests/backends/test_plain.py, filtered by a week_day spec.              *)
(***************************************************************************)
MaxItems == 2

\* DATA[0] and DATA[1] of the tests, one item for each other day of the
\* week of DATA[1], and items around the end of February
DatedItems ==
    {Py("dict", (Name.id :> Py("int", on[1]))
                @@ (Name.created :>
                       Py("datetime", [year |-> on[2], month |-> on[3],
                                       day |-> on[4]]))) :
        on \in {<<1, 2015, 6, 12>>, <<2, 2014, 5, 12>>, <<3, 2014, 5, 11>>,
                <<4, 2014, 5, 13>>, <<5, 2014, 5, 14>>, <<6, 2014, 5, 15>>,
                <<7, 2014, 5, 17>>, <<8, 2016, 2, 29>>, <<9, 2016, 3, 1>>,
                <<10, 1900, 3, 1>>}}

\* PlainFilterBackend(items)
NewDatedBackend ==
    /\ pc = "idle"
    /\ \E items \in SeqsUpTo(DatedItems, MaxItems) \ {<<>>} :
          backend' = [cls |-> "plain",
                      queryset |-> [rows |-> items, distinct |-> FALSE],
                      specs |-> <<>>, binds |-> 0,
                      regular |-> [set |-> FALSE, v |-> <<>>],
                      callables |-> [set |-> FALSE, v |-> <<>>],
                      phase |-> "ready",
                      qs |-> [rows |-> items, distinct |-> FALSE],
                      pos |-> 1, bound |-> <<>>,
                      by_specs |-> [rows |-> items, distinct |-> FALSE],
                      calls |-> <<>>, returned |-> FALSE]
    /\ pc' = "backend"
    /\ UNCHANGED <<decl, strict_mode, query, configs, idx, specs, errors,
                   trace, exception, leaf, compared, heap>>

\* backend.bind([FilterSpec(['created'], 'week_day', n, False)]): the form
\* field of the lookup admits 1 to 7
BindWeekDay ==
    /\ pc = "backend"
    /\ backend.phase = "ready"
    /\ backend.binds < MaxBinds
    /\ \E n \in 1..7 :
          backend' = [backend EXCEPT
                         !.specs = <<FilterSpecVia(<<Name.created>>,
                                                   Lookup.week_day,
                                                   Py("int", n), FALSE,
                                                   NoCallable)>>,
                         !.binds = @ + 1, !.returned = FALSE,
                         !.bound = <<>>, !.calls = <<>>,
                         !.qs = backend.queryset,
                         !.by_specs = backend.queryset]
    /\ UNCHANGED <<pc, decl, strict_mode, query, configs, idx, specs, errors,
                   trace, exception, leaf, compared, heap>>

SpecWeekDay ==
    Init /\ [][NewDatedBackend \/ BindWeekDay \/ FilterBySpecs \/ ReturnQueryset]_vars

(***************************************************************************)
(* CallableFilter.get_spec called on a filter directly, as                 *)
(* tests/test_filters.py does.  The filters are given a form field, which  *)
(* CallableFilter.get_form_field requires of a filter that serves regular  *)
(* lookups.                                                                *)
(***************************************************************************)
\* a filterset with the Django backend and one CallableFilter: the Foo of
\* test_get_spec (its method decorated with a form field), and a Foo with
\* an undecorated method, a method written for another backend and a
\* regular default lookup
CallableDeclarations ==
    [decorated |->
        [root |-> FilterSet(<<>>, "None", <<"child">>)
                  @@ [backend |-> Name.django],
         child |-> CallableFilter(
                       <<"c", "h", "i", "l", "d">>, "root", CharField, Name.foo,
                       {[lookup |-> Name.foo, backend |-> Name.django,
                         form_field |-> <<IntegerField(FALSE, 0, FALSE, 0)>>]})],
     undecorated |->
        [root |-> FilterSet(<<>>, "None", <<"child">>)
                  @@ [backend |-> Name.django],
         child |-> CallableFilter(
                       <<"c", "h", "i", "l", "d">>, "root", CharField, Lookup.exact,
                       {[lookup |-> Name.foo, backend |-> Name.django,
                         form_field |-> <<>>],
                        [lookup |-> Name.bar, backend |-> Name.sqlalchemy,
                         form_field |-> <<>>]})]]

CallCallableFilterGetSpec ==
    /\ pc = "idle"
    /\ \E d \in DOMAIN CallableDeclarations :
          \E k \in LeafCalls.keys, v \in LeafCalls.values,
             p \in LeafCalls.paths \cup {<<Name.bar>>} :
             leaf' = [decl |-> d, filter |-> "child",
                      config |-> LookupConfig(k, p, v),
                      outcome |->
                          CallableFilterGetSpec(
                              CallableDeclarations[d], "child",
                              FilterGetSpec(CallableDeclarations[d], "child",
                                            LookupConfig(k, p, v)))]
    /\ pc' = "called"
    /\ UNCHANGED <<decl, strict_mode, query, configs, idx, specs, errors,
                   trace, exception, compared, backend, heap>>

SpecCallable == Init /\ [][CallCallableFilterGetSpec]_vars

(***************************************************************************)
(* FilterSet.filters on instances of one class, each serving a request of  *)
(* its own: the steps of the calls interleave.                             *)
(***************************************************************************)
MaxInstances == 2

\* a slip that hands out the declared dict itself
declared_itself(h, entries) == [heap |-> h, filters |-> entries]

\* deepcopy(self._declared_filters): a new dict with a new object for each
\* entry, equal to the declared one (which refers to no other object)
deepcopy(h, entries) ==
    [heap |-> h \o [k \in 1..Len(entries) |-> h[entries[k].id]],
     filters |-> [k \in 1..Len(entries) |->
                     [name |-> entries[k].name, id |-> Len(h) + k]]]

\* FooFilterSet(data=...): the filterset of one request
NewFilterSet ==
    /\ pc = "idle"
    /\ Cardinality({i \in (Len(DeclaredObjects) + 1)..Len(heap) :
                       heap[i].cls = "FooFilterSet"}) < MaxInstances
    /\ heap' = Append(heap, Object("FooFilterSet"))
    /\ UNCHANGED <<pc, decl, strict_mode, query, configs, idx, specs, errors,
                   trace, exception, leaf, compared, backend>>

\* FilterSet.filters is read for the first time on a request's filterset
\* or on a nested filterset bound to one: filters = self.get_filters()
GetFilters ==
    /\ pc = "idle"
    /\ \E i \in (Len(DeclaredObjects) + 1)..Len(heap) :
          /\ heap[i].cls \in {"FooFilterSet", "BarFilterSet"}
          /\ heap[i].cls = "BarFilterSet" => heap[i].is_bound
          /\ ~heap[i].filters.set
          /\ ~heap[i].local.active
          /\ heap' = [deepcopy(heap, declared_filters(heap[i].cls)).heap
                         EXCEPT ![i].local =
                             [active |-> TRUE, pos |-> 1,
                              v |-> deepcopy(heap, declared_filters(heap[i].cls)).filters]]
    /\ UNCHANGED <<pc, decl, strict_mode, query, configs, idx, specs, errors,
                   trace, exception, leaf, compared, backend>>

\* one iteration of the loop of FilterSet.filters, _filter.bind(name, self);
\* after the last one the dict is returned and cached in the instance
BindFilter ==
    /\ pc = "idle"
    /\ \E i \in 1..Len(heap) :
          /\ heap[i].local.active
          /\ heap' = [heap EXCEPT
                         ![heap[i].local.v[heap[i].local.pos].id] =
                             [@ EXCEPT !.name = heap[i].local.v[heap[i].local.pos].name,
                                       !.parent = i,
                                       !.is_bound = TRUE],
                         ![i].local.pos = @ + 1,
                         ![i].local.active = heap[i].local.pos < Len(heap[i].local.v),
                         ![i].filters =
                             IF heap[i].local.pos < Len(heap[i].local.v) THEN @
                             ELSE [set |-> TRUE, v |-> heap[i].local.v]]
    /\ UNCHANGED <<pc, decl, strict_mode, query, configs, idx, specs, errors,
                   trace, exception, leaf, compared, backend>>

SpecFilters == Init /\ [][NewFilterSet \/ GetFilters \/ BindFilter]_vars

(***************************************************************************)
(* Properties.                                                             *)
(***************************************************************************)
Done == pc \in {"returned", "raised"}

\* the outcome of resolving one config on its own against the request's
\* declared filterset
Resolve(config) == FilterSetGetSpec(Declarations[decl], "root", config)

\* config i is one a resolution of which ends in a validation failure
Fails(i) ==
    /\ validate_key(configs[i].key)
    /\ Resolve(configs[i]).kind = "error"

\* the specs of the configs that resolve, in the order of the configs
RECURSIVE ResolvedSpecs(_)
ResolvedSpecs(cs) ==
    IF cs = <<>> THEN <<>>
    ELSE (IF validate_key(Head(cs).key) /\ Resolve(Head(cs)).kind = "spec"
          THEN <<Resolve(Head(cs)).spec>> ELSE <<>>)
         \o ResolvedSpecs(Tail(cs))

\* C1: under drop strictness get_specs never raises, and it returns exactly
\* the specs of the pairs that resolve, the failing pairs contributing none
C1_DropNeverRaises ==
    strict_mode = "drop" =>
        /\ pc # "raised"
        /\ exception = Initially.exception
        /\ pc = "returned" => specs = ResolvedSpecs(configs)

C1_Witness ==
    /\ pc = "returned"
    /\ strict_mode = "drop"
    /\ \E i \in 1..Len(configs) : Fails(i)
    /\ specs # <<>>

C3_EmptyOnFailure ==
    (strict_mode = "empty" /\ Done /\ \E i \in 1..Len(configs) : Fails(i)) =>
        /\ pc = "raised"
        /\ exception.type = "Empty"

\* the events of the walk whose config reached some Filter.get_spec
Walked == 1..Len(trace)

\* C4: Filter.get_spec fails, and returns no spec, whenever the node it is
\* handed nests more than one level beyond the filter
C4_DeepNestingRejected ==
    /\ (pc = "called" /\ Len(leaf.config.path) > 1) =>
           leaf.outcome.kind = "error"
    /\ \A i \in Walked :
           (trace[i].outcome.by # "None"
            /\ Len(trace[i].outcome.handed.path) > 1) =>
               trace[i].kind = "error"

\* the flat key ends with the negation marker
EndsWithMarker(key) == key # <<>> /\ key[Len(key)] = "!"

\* C5: a resolved spec is negated iff its flat key carries the marker, and
\* a key k resolved to spec S has k! with the same value resolved to S
\* with is_negated set
C5_NegationRoundTrip ==
    \A i \in Walked :
        trace[i].kind = "spec" =>
            /\ trace[i].outcome.spec.is_negated
                   <=> EndsWithMarker(configs[i].key)
            /\ \A j \in Walked :
                   (/\ ~EndsWithMarker(configs[i].key)
                    /\ configs[j].key = configs[i].key \o <<"!">>
                    /\ configs[j].val = configs[i].val) =>
                       /\ trace[j].kind = "spec"
                       /\ trace[j].outcome.spec =
                              [trace[i].outcome.spec EXCEPT !.is_negated = TRUE]

C5_Witness ==
    /\ Done
    /\ \E i, j \in Walked :
          /\ trace[i].kind = "spec"
          /\ trace[j].kind = "spec"
          /\ configs[j].key = configs[i].key \o <<"!">>
          /\ configs[j].val = configs[i].val
          /\ Len(configs[i].path) = 2

\* b is a nested filterset of the request's root that has a default filter
NestedWithDefault(b) ==
    LET d == Declarations[decl]
    IN  /\ b \in DOMAIN d
        /\ d[b].kind = "FilterSet"
        /\ d[b].parent = "root"
        /\ default_filter(d, b) # "None"

\* C6: for a nested filterset with a default filter, the key naming the
\* filterset alone and the key naming its default filter resolve alike for
\* the same value: the same spec, or the same failure
C6_DefaultChildDelegation ==
    \A i, j \in Walked :
        \A b \in DOMAIN Declarations[decl] :
            LET d == Declarations[decl]
            IN  (/\ NestedWithDefault(b)
                 /\ configs[i].path = <<d[b].name>>
                 /\ configs[j].path = <<d[b].name, d[default_filter(d, b)].name>>
                 /\ configs[i].val = configs[j].val
                 /\ EndsWithMarker(configs[i].key)
                        <=> EndsWithMarker(configs[j].key)
                 /\ trace[i].kind # "invalid_key"
                 /\ trace[j].kind # "invalid_key") =>
                    /\ trace[i].kind = trace[j].kind
                    /\ trace[i].outcome.spec = trace[j].outcome.spec
                    /\ trace[i].outcome.errors = trace[j].outcome.errors

\* C7: in a nested filterset with a default filter, a segment naming none
\* of its filters hands the filterset's node, unchanged, to the default
\* filter, which reads the segment as its lookup; at the root a segment
\* naming no filter is skipped, default filter or not
C7_DefaultFallbackOnlyNested ==
    \A i \in Walked :
        LET d == Declarations[decl]
            c == configs[i]
        IN  trace[i].kind # "invalid_key" =>
            /\ ~HasFilter(d, "root", c.path[1]) => trace[i].kind = "skip"
            /\ \A b \in DOMAIN d :
                   (/\ NestedWithDefault(b)
                    /\ Len(c.path) >= 2
                    /\ c.path[1] = d[b].name
                    /\ ~HasFilter(d, b, c.path[2])) =>
                       /\ trace[i].outcome.by = default_filter(d, b)
                       /\ trace[i].outcome.handed = ConfigValue(c)
                       /\ trace[i].kind \in {"spec", "error"}
                       /\ trace[i].kind = "spec" =>
                              /\ trace[i].outcome.spec.lookup = c.path[2]
                              /\ trace[i].outcome.spec.components =
                                     components(d, default_filter(d, b))

C7_Witness ==
    /\ Done
    /\ default_filter(Declarations[decl], "root") # "None"
    /\ \E i, j \in Walked :
          /\ configs[i].path = <<Name.bar, Lookup.isnull>>
          /\ trace[i].kind = "spec"
          /\ trace[i].outcome.spec.lookup = Lookup.isnull
          /\ trace[i].outcome.spec.value = Py("bool", TRUE)
          /\ configs[j].path = <<Name.page>>
          /\ trace[j].kind = "skip"

\* what the walk so far has contributed: one spec per event that resolved,
\* error entries under the keys of the events that failed
Accounted ==
    /\ Len(specs) = Cardinality({i \in Walked : trace[i].kind = "spec"})
    /\ DOMAIN errors =
           {configs[i].key : i \in {j \in Walked : trace[j].kind = "error"}}

\* config c names no filter of the root, or names a nested filterset that
\* has no default filter and then no leaf or none of its filters
UnknownField(c) ==
    LET d == Declarations[decl]
    IN  \/ ~HasFilter(d, "root", c.path[1])
        \/ \E b \in DOMAIN d :
              /\ d[b].kind = "FilterSet"
              /\ d[b].parent = "root"
              /\ c.path[1] = d[b].name
              /\ default_filter(d, b) = "None"
              /\ \/ Len(c.path) = 1
                 \/ ~HasFilter(d, b, c.path[2])

\* C8: a pair that names an unknown field contributes neither a spec nor an
\* error, whatever the strictness
C8_UnknownFieldSkipped ==
    /\ Accounted
    /\ \A i \in Walked :
           (trace[i].kind # "invalid_key" /\ UnknownField(configs[i])) =>
               trace[i].kind = "skip"
    /\ (pc = "raised") => (\E i \in Walked : ~UnknownField(configs[i]))

C8_Witness ==
    /\ pc = "returned"
    /\ strict_mode = "fail"
    /\ Len(trace) = 2
    /\ configs[1].path = <<Name.bar>>
    /\ configs[2].path = <<Name.bar, Name.page>>
    /\ trace[1].kind = "skip"
    /\ trace[2].kind = "skip"

\* the key has a "!" before its last character
InnerMarker(key) == \E i \in 1..(Len(key) - 1) : key[i] = "!"

\* C9: a key the key syntax rejects is skipped without a call of get_spec:
\* no spec, no entry in the error map, no aggregate error on its account
C9_InvalidKeySilent ==
    /\ Accounted
    /\ \A i \in Walked :
           InnerMarker(configs[i].key) =>
               /\ trace[i].kind = "invalid_key"
               /\ trace[i].outcome.by = "None"
               /\ configs[i].key \notin DOMAIN errors
    /\ (pc = "raised") =>
           (\E i \in Walked : ~InnerMarker(configs[i].key)
                              /\ trace[i].kind = "error")

C9_Witness ==
    /\ pc = "returned"
    /\ strict_mode = "fail"
    /\ Len(trace) = 2
    /\ configs[1].key = k_bad_field
    /\ trace[1].kind = "invalid_key"
    /\ trace[2].kind = "spec"

\* the outcome o of Filter.get_spec of filter n of declaration d: a spec it
\* returns has an allowed lookup, and when the lookup it resolved (the
\* explicit one, else the default one) is not allowed, it raises "lookup is
\* not supported" without running the value validator
LookupChecked(d, n, o) ==
    LET c == o.handed
        resolved == IF DataIsDict(c) THEN ConfigName(c)
                    ELSE d[n].default_lookup
    IN  /\ o.kind = "spec" => o.spec.lookup \in lookups(d, n)
        /\ (/\ ~(DataIsDict(c) /\ d[n].no_lookup)
            /\ resolved \notin lookups(d, n)) =>
               /\ o.kind = "error"
               /\ o.errors = <<"lookup_not_supported">>
               /\ ~o.cleaned

\* C10: every spec of Filter.get_spec has a lookup among the filter's
\* allowed lookups; a resolved lookup outside them is refused as not
\* supported before the value validator runs
C10_LookupAllowed ==
    /\ pc = "called" =>
           LookupChecked(Declarations[leaf.decl], leaf.filter, leaf.outcome)
    /\ \A i \in Walked :
           trace[i].outcome.by # "None" =>
               LookupChecked(Declarations[decl], trace[i].outcome.by,
                             trace[i].outcome)

C10_Witness ==
    /\ pc = "called"
    /\ leaf.decl = "lookups"
    /\ leaf.filter = "field"
    /\ ~DataIsDict(leaf.config)
    /\ leaf.outcome.errors = <<"lookup_not_supported">>

\* the outcomes of Filter.get_spec the state holds, each with the
\* declaration and the filter it came from: the direct call, and the
\* events of the walk that reached a filter
LeafOutcomes ==
    (IF pc = "called"
     THEN {[d |-> Declarations[leaf.decl], n |-> leaf.filter,
            o |-> leaf.outcome]}
     ELSE {})
    \cup {[d |-> Declarations[decl], n |-> trace[i].outcome.by,
           o |-> trace[i].outcome] : i \in {j \in Walked :
                                              trace[j].outcome.by # "None"}}

\* the filter's validator for its default lookup accepts the scalar value
\* of the node handed to it
ScalarAccepted(d, n, c) ==
    /\ ~DataIsDict(c)
    /\ clean_value(d, n, ConfigData(c), d[n].default_lookup).ok

\* C11 as stated: a scalar node at a leaf filter, with a value the filter's
\* validator accepts, yields a spec whose lookup is the filter's
\* default_lookup
C11_DefaultLookupAsStated ==
    \A e \in LeafOutcomes :
        ScalarAccepted(e.d, e.n, e.o.handed) =>
            /\ e.o.kind = "spec"
            /\ e.o.spec.lookup = e.d[e.n].default_lookup

\* C11: a scalar node at a leaf filter whose default_lookup is among the
\* filter's allowed lookups, with a value the filter's validator accepts,
\* yields a spec whose lookup is the filter's default_lookup; and every
\* spec of a scalar node has the default_lookup as its lookup
C11_DefaultLookupFallback ==
    \A e \in LeafOutcomes :
        /\ (/\ ScalarAccepted(e.d, e.n, e.o.handed)
            /\ e.d[e.n].default_lookup \in lookups(e.d, e.n)) =>
               /\ e.o.kind = "spec"
               /\ e.o.spec.lookup = e.d[e.n].default_lookup
        /\ (~DataIsDict(e.o.handed) /\ e.o.kind = "spec") =>
               e.o.spec.lookup = e.d[e.n].default_lookup

C11_Witness ==
    /\ pc = "called"
    /\ leaf.decl = "plain"
    /\ leaf.filter = "other"
    /\ ~DataIsDict(leaf.config)
    /\ leaf.outcome.kind = "spec"
    /\ leaf.outcome.spec.lookup = Lookup.contains

\* the declaration d with the no_lookup flag of its filter n cleared
WithLookupsPermitted(d, n) == [d EXCEPT ![n].no_lookup = FALSE]

\* C12: a filter declared with no_lookup fails every node that carries an
\* explicit lookup name, allowed or not, without cleaning the value, and
\* resolves a scalar node exactly as it would without the flag
C12_NoLookupRefusesExplicit ==
    \A e \in LeafOutcomes :
        e.d[e.n].no_lookup =>
            /\ DataIsDict(e.o.handed) =>
                   /\ e.o.kind = "error"
                   /\ ~e.o.cleaned
            /\ ~DataIsDict(e.o.handed) =>
                   e.o = FilterGetSpec(WithLookupsPermitted(e.d, e.n), e.n,
                                       e.o.handed)

C12_Witness ==
    /\ pc = "called"
    /\ leaf.decl = "lookups"
    /\ leaf.filter = "other"
    /\ leaf.config.path = <<Lookup.contains>>
    /\ leaf.config.val = Raw.v_aa
    /\ leaf.outcome.kind = "error"

\* filter n of declaration d takes the explicit lookup: the filter permits
\* explicit lookups and the lookup is among its allowed ones
TakesLookup(d, n, lookup) == ~d[n].no_lookup /\ lookup \in lookups(d, n)

\* the items of a raw value of a multiple-values lookup
ItemsOf(val) == Split(val, <<",">>)

\* what the filter's own form field makes of one item
ItemClean(d, n, item) == CleanPlain(d[n].form_field, Py("str", item))

\* the raw value is exactly two items, each accepted by the filter's own
\* form field
IsPair(d, n, val) ==
    /\ val # <<>>
    /\ Len(ItemsOf(val)) = 2
    /\ \A k \in 1..2 : ItemClean(d, n, ItemsOf(val)[k]).ok

\* C13: on a filter that takes the range lookup, a node {range: raw value}
\* resolves to a spec iff the raw value is exactly two accepted items, the
\* spec's value being the two coerced items in order; otherwise it is a
\* validation failure, which get_specs files under the flat key: no spec
\* for the pair under drop, the aggregate error with that key under fail
C13_RangeTakesExactlyTwo ==
    /\ \A e \in LeafOutcomes :
           (/\ e.o.handed.path = <<Lookup.range>>
            /\ TakesLookup(e.d, e.n, Lookup.range)) =>
               /\ e.o.kind = "spec" <=> IsPair(e.d, e.n, e.o.handed.val)
               /\ e.o.kind = "spec" =>
                      /\ e.o.spec.lookup = Lookup.range
                      /\ e.o.spec.value =
                             Py("list", [k \in 1..2 |->
                                 ItemClean(e.d, e.n,
                                           ItemsOf(e.o.handed.val)[k]).value])
               /\ e.o.kind # "spec" =>
                      /\ e.o.kind = "error"
                      /\ e.o.cleaned
    /\ \A i \in Walked :
           (/\ trace[i].kind = "error"
            /\ trace[i].outcome.handed.path = <<Lookup.range>>) =>
               /\ configs[i].key \in DOMAIN errors
               /\ (Done /\ strict_mode = "drop") =>
                      /\ pc = "returned"
                      /\ Len(specs) =
                             Cardinality({j \in Walked : trace[j].kind = "spec"})
               /\ (Done /\ strict_mode = "fail") =>
                      /\ pc = "raised"
                      /\ configs[i].key \in DOMAIN exception.errors

C13_Witness ==
    /\ pc = "returned"
    /\ strict_mode = "drop"
    /\ Len(configs) = 2
    /\ configs[1].path = <<Name.bar, Name.thing, Lookup.range>>
    /\ configs[1].val = Raw.v_5_10_15
    /\ configs[2].path = <<Name.bar, Name.thing, Lookup.range>>
    /\ configs[2].val = Raw.v_5_10
    /\ Len(specs) = 1
    /\ specs[1].value = Py("list", <<Py("int", 5), Py("int", 10)>>)

\* the coerced items the form field accepts, in input order
RECURSIVE AcceptedItems(_, _, _)
AcceptedItems(d, n, items) ==
    IF items = <<>> THEN <<>>
    ELSE (IF ItemClean(d, n, Head(items)).ok
          THEN <<ItemClean(d, n, Head(items)).value>> ELSE <<>>)
         \o AcceptedItems(d, n, Tail(items))

\* C14: an in lookup whose items are only partly accepted resolves, under
\* drop and empty strictness, to a spec whose value is the accepted coerced
\* items in input order, and fails under fail strictness; with no accepted
\* item there is no spec under drop
C14_InKeepsAcceptedItems ==
    \A i \in Walked :
        LET d == Declarations[decl]
            o == trace[i].outcome
            acc == AcceptedItems(d, o.by, ItemsOf(o.handed.val))
        IN  (/\ o.by # "None"
             /\ o.handed.path = <<Lookup.in>>
             /\ TakesLookup(d, o.by, Lookup.in)) =>
                /\ (/\ acc # <<>>
                    /\ Len(acc) < Len(ItemsOf(o.handed.val))
                    /\ strict_mode \in {"drop", "empty"}) =>
                       /\ trace[i].kind = "spec"
                       /\ o.spec.value = Py("list", acc)
                /\ (/\ acc # <<>>
                    /\ Len(acc) < Len(ItemsOf(o.handed.val))
                    /\ strict_mode = "fail") =>
                       /\ trace[i].kind = "error"
                       /\ Done => pc = "raised"
                /\ (acc = <<>> /\ strict_mode = "drop") =>
                       trace[i].kind # "spec"

\* C15: two FilterSpec objects compare equal and hash equal whenever their
\* components, lookup, value and is_negated are identical, and compare
\* unequal whenever any of the four differs
C15_StructuralEquality ==
    pc = "compared" =>
        LET a == compared.a
            b == compared.b
            same == /\ a.components = b.components
                    /\ a.lookup = b.lookup
                    /\ a.value = b.value
                    /\ a.is_negated = b.is_negated
        IN  /\ same => (compared.eq /\ compared.hash_eq)
            /\ ~same => ~compared.eq

\* filter_by_specs has been applied by the current filter() call
Applied == pc = "backend" /\ (backend.phase = "callables" \/ backend.returned)

\* the regular specs bound when filter() was called
BoundRegular == SpecsCallable(backend.bound, FALSE)

\* the row has, along the spec's path, a value for which the lookup holds
SpecMatches(row, spec) ==
    \E value \in ValuesAt(row, spec.components) :
        LookupHolds(spec.lookup, value, spec.value)

\* the row is in the collection filter_by_specs returned
Kept(row) ==
    \E k \in 1..Len(backend.by_specs.rows) : backend.by_specs.rows[k] = row

\* the comparison of the spec's lookup is defined on the rows' values
Comparable(spec) == spec.lookup \in {Lookup.exact, Lookup.gt}

\* C16: in the three url_filter backends, when every bound regular spec has
\* a comparison defined on the rows, a row that passes the non-negated
\* bound regular specs is removed by filter_by_specs iff it matches at least
\* one negated bound regular spec
C16_IndependentNegations ==
    (/\ Applied
     /\ backend.cls \in {"django", "sqlalchemy", "plain"}
     /\ \A k \in 1..Len(BoundRegular) : Comparable(BoundRegular[k])) =>
        \A r \in 1..Len(Articles) :
            (\A k \in 1..Len(BoundRegular) :
                ~BoundRegular[k].is_negated =>
                    SpecMatches(Articles[r], BoundRegular[k])) =>
                (~Kept(Articles[r]) <=>
                    \E k \in 1..Len(BoundRegular) :
                        /\ BoundRegular[k].is_negated
                        /\ SpecMatches(Articles[r], BoundRegular[k]))

\* C17: in both Django backends every row filter_by_specs returns satisfies
\* every non-negated bound regular spec
C17_ConjunctiveInclude ==
    (Applied /\ backend.cls \in {"django", "django_ufilter"}) =>
        \A r \in 1..Len(backend.by_specs.rows) :
            \A k \in 1..Len(BoundRegular) :
                ~BoundRegular[k].is_negated =>
                    SpecMatches(backend.by_specs.rows[r], BoundRegular[k])

\* the comparison of the spec against a value of the row raises
RaisesOn(row, spec) ==
    \E value \in ValuesAt(row, spec.components) : ComparatorRaises(value, spec)

\* C18: PlainFilterBackend keeps every item that each bound regular spec
\* either cannot be evaluated on (its comparison raises) or lets pass
C18_FailOpen ==
    (Applied /\ backend.cls = "plain") =>
        \A r \in 1..Len(Articles) :
            (\A k \in 1..Len(BoundRegular) :
                \/ RaisesOn(Articles[r], BoundRegular[k])
                \/ SpecMatches(Articles[r], BoundRegular[k])
                       # BoundRegular[k].is_negated) =>
                Kept(Articles[r])

\* the callable specs bound when filter() was called
BoundCallable == SpecsCallable(backend.bound, TRUE)

\* C19: when filter() has returned, filter_by_specs was applied to the
\* original queryset; the callables invoked are those of the bound callable
\* specs, once each, in bound order, and never a regular spec; each was
\* given the collection the previous step returned; the result is what the
\* last one returned
C19_CallablesInBoundOrder ==
    (pc = "backend" /\ backend.returned) =>
        /\ backend.by_specs =
              filter_by_specs(backend.cls, backend.regular.v, backend.queryset)
        /\ Len(backend.calls) = Len(BoundCallable)
        /\ \A k \in 1..Len(backend.calls) :
              /\ backend.calls[k].spec = BoundCallable[k]
              /\ is_callable(backend.calls[k].spec)
              /\ backend.calls[k].queryset =
                    IF k = 1 THEN backend.by_specs
                    ELSE ApplyCallable(backend.calls[k - 1].spec,
                                       backend.calls[k - 1].queryset)
        /\ backend.qs =
              IF backend.calls = <<>> THEN backend.by_specs
              ELSE ApplyCallable(backend.calls[Len(backend.calls)].spec,
                                 backend.calls[Len(backend.calls)].queryset)

\* the spec's path has a component that is a one-to-many or many-to-many
\* relation of the models
CrossesToMany(spec) ==
    \E i \in 1..Len(spec.components) :
        spec.components[i] \in {Name.publications, Name.articles}

\* C20: in both Django backends, when a bound regular spec crosses a
\* to-many relation, the queryset filter_by_specs returns has had
\* distinct() applied
C20_DistinctForToMany ==
    (/\ Applied
     /\ backend.cls \in {"django", "django_ufilter"}
     /\ \E k \in 1..Len(BoundRegular) : CrossesToMany(BoundRegular[k])) =>
        backend.by_specs.distinct

C20_Witness ==
    /\ Applied
    /\ backend.cls = "django_ufilter"
    /\ Len(BoundRegular) = 2
    /\ BoundRegular[1].components = <<Name.id>>
    /\ BoundRegular[2].components = <<Name.reporter, Name.articles, Name.id>>
    /\ backend.by_specs.distinct
    /\ ~backend.queryset.distinct

\* the filters on the way from the root's child down to filter n
RECURSIVE PathFromRoot(_, _)
PathFromRoot(d, n) ==
    IF d[n].parent = "None" THEN <<>>
    ELSE PathFromRoot(d, d[n].parent) \o <<n>>

\* C22: every spec get_specs resolves has non-empty components, one per
\* filter on the way from the root's child down to the resolving leaf, each
\* the explicit source of that filter if it has one and its name otherwise
C22_ComponentsAreSources ==
    \A i \in Walked :
        trace[i].kind = "spec" =>
            LET d == Declarations[decl]
                way == PathFromRoot(d, trace[i].outcome.by)
                comps == trace[i].outcome.spec.components
            IN  /\ comps # <<>>
                /\ Len(comps) = Len(way)
                /\ \A k \in 1..Len(way) :
                      comps[k] = IF d[way[k]].source # <<>>
                                 THEN d[way[k]].source
                                 ELSE d[way[k]].name
                /\ Done /\ pc = "returned" =>
                      \E j \in 1..Len(specs) : specs[j].components = comps

C22_Witness ==
    /\ pc = "returned"
    /\ decl = "aliased"
    /\ Len(configs) = 1
    /\ configs[1].path = <<Name.bar, Name.id>>
    /\ Len(specs) = 1
    /\ specs[1].components = <<Name.bar, Name.other>>

\* the pairs of a querystring in the iteration order of the multi-map: by
\* first occurrence of their key, the pairs of one key in written order
RECURSIVE GroupedByKey(_)
GroupedByKey(q) ==
    IF q = <<>> THEN <<>>
    ELSE SelectSeq(q, LAMBDA p : p.key = Head(q).key)
         \o GroupedByKey(SelectSeq(q, LAMBDA p : p.key # Head(q).key))

\* the specs each pair resolves to as the only pair of a request, joined
RECURSIVE SpecsOfEach(_)
SpecsOfEach(pairs) ==
    IF pairs = <<>> THEN <<>>
    ELSE ResolvedSpecs(generate_lookup_configs(<<Head(pairs)>>))
         \o SpecsOfEach(Tail(pairs))

\* C23: under drop strictness get_specs returns the concatenation, in the
\* iteration order of the multi-map, of what each pair resolves to on its
\* own, repeated pairs included
C23_PairsResolveIndependently ==
    (pc = "returned" /\ strict_mode = "drop") =>
        specs = SpecsOfEach(GroupedByKey(query))

C23_Witness ==
    /\ pc = "returned"
    /\ strict_mode = "drop"
    /\ Len(query) = 2
    /\ query[1] = query[2]
    /\ Len(specs) = 2
    /\ specs[1] = specs[2]

\* the text is an identifier: a letter or underscore, then letters, digits
\* and underscores
IsIdentifier(text) ==
    /\ text # <<>>
    /\ text[1] \in Letters \cup {"_"}
    /\ \A i \in 1..Len(text) : text[i] \in Letters \cup Digits \cup {"_"}

\* the key without one trailing marker
WithoutTrailingMarker(key) ==
    IF EndsWithMarker(key) THEN SubSeq(key, 1, Len(key) - 1) ELSE key

\* C24: validate_key accepts a key iff the key without its optional
\* trailing marker splits on the separator into identifiers, and every
\* segment of the config of an accepted key is an identifier
C24_KeyGrammar ==
    pc \in {"valid", "invalid"} =>
        /\ pc = "valid" <=>
              \A i \in 1..Len(Split(WithoutTrailingMarker(query[1].key),
                                    LOOKUP_SEP)) :
                  IsIdentifier(Split(WithoutTrailingMarker(query[1].key),
                                     LOOKUP_SEP)[i])
        /\ pc = "valid" =>
              \A i \in 1..Len(configs[1].path) :
                  IsIdentifier(configs[1].path[i])

\* the plain nested mapping {s1: {s2: ... {sn: v}}}
RECURSIVE NestedMapping(_, _)
NestedMapping(segments, v) ==
    IF segments = <<>> THEN Py("str", v)
    ELSE Py("dict", Head(segments) :> NestedMapping(Tail(segments), v))

\* the number of nested mappings of a config before its value
RECURSIVE ChainLength(_)
ChainLength(config) ==
    IF DataIsDict(config) THEN 1 + ChainLength(ConfigValue(config)) ELSE 0

\* every level of a config carries the given flat key
RECURSIVE KeyAtEveryLevel(_, _)
KeyAtEveryLevel(config, key) ==
    /\ config.key = key
    /\ DataIsDict(config) => KeyAtEveryLevel(ConfigValue(config), key)

\* C25: _generate_lookup_configs yields one LookupConfig per value of the
\* querystring; the config of a key with n segments (its "!" removed) and a
\* value v is a chain of exactly n nested single-entry mappings ending in
\* v, every level carries the flat key unchanged, as_dict() is the plain
\* nested mapping {s1: {s2: ... {sn: v}}}, and a LookupConfig built again
\* from that mapping has the same as_dict().  The configs are looked at
\* when get_specs has generated them and is about to walk the first.
C25_ChainOfSegments ==
    (pc = "loop" /\ idx = 1) =>
        /\ Len(configs) = Len(query)
        /\ \A p \in {query[j] : j \in 1..Len(query)} :
              Cardinality({i \in 1..Len(configs) :
                              /\ configs[i].key = p.key
                              /\ configs[i].val = p.value})
              = Cardinality({j \in 1..Len(query) : query[j] = p})
        /\ \A i \in 1..Len(configs) :
              /\ ChainLength(configs[i])
                 = Len(Split(Remove(configs[i].key, "!"), LOOKUP_SEP))
              /\ KeyAtEveryLevel(configs[i], configs[i].key)
              /\ as_dict(configs[i])
                 = NestedMapping(Split(Remove(configs[i].key, "!"),
                                       LOOKUP_SEP),
                                 configs[i].val)
              /\ as_dict(LookupConfigInit(configs[i].key, as_dict(configs[i])))
                 = as_dict(configs[i])

\* a request that gives two values to one key of three segments
C25_Witness ==
    /\ pc = "loop" /\ idx = 1
    /\ \E i, j \in 1..Len(configs) :
        /\ i # j
        /\ configs[i].key = configs[j].key
        /\ configs[i].val # configs[j].val
        /\ ChainLength(configs[i]) = 3

\* C30: a scalar node handed to a nested filterset (the key names the
\* filterset and nothing below it) is resolved by the filterset's default
\* filter itself, whatever its source and whatever its siblings are named:
\* the outcome is the one of the default filter's own get_spec on the value
C30_ScalarNodeByDefaultFilter ==
    \A i \in Walked :
        \A b \in DOMAIN Declarations[decl] :
            (/\ NestedWithDefault(b)
             /\ configs[i].path = <<Declarations[decl][b].name>>
             /\ trace[i].kind # "invalid_key") =>
                /\ trace[i].outcome.by = default_filter(Declarations[decl], b)
                /\ trace[i].outcome
                   = FilterGetSpec(Declarations[decl],
                                   default_filter(Declarations[decl], b),
                                   LookupConfig(configs[i].key, <<>>,
                                                configs[i].val))

\* C29: whatever bind() and filter() calls came before, a filter() call
\* works on the specs of the most recent bind(): regular_specs holds no
\* callable spec and callable_specs no regular one, the two together have
\* as many specs as are bound, and each is the bound list's regular or
\* callable specs in bound order; filter_by_specs is given those regular
\* specs
C29_FilterAppliesBoundSpecs ==
    Applied =>
        /\ \A k \in 1..Len(backend.regular.v) :
              ~is_callable(backend.regular.v[k])
        /\ \A k \in 1..Len(backend.callables.v) :
              is_callable(backend.callables.v[k])
        /\ Len(backend.regular.v) + Len(backend.callables.v)
           = Len(backend.bound)
        /\ backend.regular.v = BoundRegular
        /\ backend.callables.v = BoundCallable
        /\ backend.by_specs
           = filter_by_specs(backend.cls, BoundRegular, backend.queryset)

\* walking the path from the value reaches a list
RECURSIVE ListAlong(_, _)
ListAlong(value, path) ==
    \/ value.t = "list"
    \/ /\ path # <<>>
       /\ value.t = "dict"
       /\ Head(path) \in DOMAIN value.v
       /\ ListAlong(value.v[Head(path)], Tail(path))

\* every regular spec filter_by_specs applies reaches a list in every item
AppliedToLists ==
    /\ Applied
    /\ backend.cls = "plain"
    /\ backend.regular.v # <<>>
    /\ \A k \in 1..Len(backend.regular.v) :
          \A r \in 1..Len(Articles) :
              ListAlong(Articles[r], backend.regular.v[k].components)

\* C27: in the plain backend, when the values along the specs' components
\* are lists, at whatever depth, an item is kept iff for each spec that
\* is not negated at least one element of the list matches and for each
\* negated spec no element does; the kept items are returned in the order
\* of the input, which is left as it was
C27_ListTraversal ==
    AppliedToLists =>
        /\ \A r \in 1..Len(Articles) :
              Kept(Articles[r]) <=>
                  \A k \in 1..Len(backend.regular.v) :
                      SpecMatches(Articles[r], backend.regular.v[k])
                      # backend.regular.v[k].is_negated
        /\ backend.by_specs.rows = SelectSeq(Articles, Kept)
        /\ backend.queryset.rows = Articles

\* a negated spec on a list one level down and a spec on a list two levels
\* down were applied together and kept some item but not all
C27_Witness ==
    /\ AppliedToLists
    /\ \E k \in 1..Len(backend.regular.v) :
          /\ backend.regular.v[k].is_negated
          /\ Len(backend.regular.v[k].components) = 2
    /\ \E k \in 1..Len(backend.regular.v) :
          /\ ~backend.regular.v[k].is_negated
          /\ Len(backend.regular.v[k].components) = 3
    /\ backend.by_specs.rows # <<>>
    /\ Len(backend.by_specs.rows) < Len(Articles)

\* the day of the week each item of DatedItems was created on, by the
\* calendar and by the item's id, Monday 1 to Sunday 7
DayOfItem == <<5, 1, 7, 2, 3, 4, 6, 1, 2, 4>>

\* C28: a week_day spec with value n applied by the plain backend keeps an
\* item iff the item was created on the n-th day of the week, Monday being
\* the first and Sunday the seventh: week_day 1 keeps the item of Monday
\* 2014-05-12 and not the item of Friday 2015-06-12
C28_WeekDayFromMonday ==
    (/\ Applied
     /\ Len(backend.regular.v) = 1
     /\ backend.regular.v[1].components = <<Name.created>>) =>
        \A r \in 1..Len(backend.queryset.rows) :
            Kept(backend.queryset.rows[r]) <=>
                DayOfItem[backend.queryset.rows[r].v[Name.id].v]
                = backend.regular.v[1].value.v

\* the lookups for which the called CallableFilter has a method written for
\* the backend of its root
CustomLookups ==
    {m.lookup : m \in {x \in CallableDeclarations[leaf.decl].child.methods :
                          x.backend = CallableDeclarations[leaf.decl].root.backend}}

\* what Filter.get_spec makes of the config the CallableFilter was handed
RegularOutcome ==
    FilterGetSpec(CallableDeclarations[leaf.decl], "child", leaf.config)

\* C26: CallableFilter.get_spec returns, for a lookup that has a
\* filter_<lookup>_for_<backend> method for the root's backend, the spec of
\* Filter.get_spec with that bound method as filter_callable; for an
\* allowed lookup that has none, it returns the regular spec of
\* Filter.get_spec, without a filter_callable
C26_CallableOnlyForCustomLookups ==
    pc = "called" =>
        /\ (/\ ResolvedLookup(CallableDeclarations[leaf.decl], "child",
                              leaf.config) \in CustomLookups
            /\ RegularOutcome.kind = "spec") =>
               /\ leaf.outcome.kind = "spec"
               /\ leaf.outcome.spec =
                     [RegularOutcome.spec EXCEPT !.filter_callable =
                         BoundMethod("child", Name.Foo,
                                     <<"f", "i", "l", "t", "e", "r", "_">>
                                     \o RegularOutcome.spec.lookup
                                     \o <<"_", "f", "o", "r", "_">>
                                     \o Name.django)]
        /\ (/\ ResolvedLookup(CallableDeclarations[leaf.decl], "child",
                              leaf.config)
                  \in lookups(CallableDeclarations[leaf.decl], "child")
                      \ CustomLookups
            /\ RegularOutcome.kind = "spec") =>
               /\ leaf.outcome.kind = "spec"
               /\ leaf.outcome.spec = RegularOutcome.spec
               /\ ~is_callable(leaf.outcome.spec)

\* the filterset at i holds the object at o in its dict of filters, cached
\* or still being bound
HoldsFilter(i, o) ==
    \E k \in 1..Len(heap[i].filters.v \o heap[i].local.v) :
        (heap[i].filters.v \o heap[i].local.v)[k].id = o

\* C21: however the filters calls of the instances interleave, the objects
\* declared in the class bodies stay as they were declared, unbound with
\* neither parent nor name; a bound filter has the instance that holds it
\* for parent and its key for name; and no object is held by two
\* instances, nor is a declared object held by any
C21_RequestIsolation ==
    /\ \A k \in 1..Len(DeclaredObjects) :
          /\ heap[k] = DeclaredObjects[k]
          /\ heap[k].parent = 0 /\ heap[k].name = <<>> /\ ~heap[k].is_bound
    /\ \A i, o \in 1..Len(heap) :
          HoldsFilter(i, o) =>
              /\ o > Len(DeclaredObjects)
              /\ heap[o].is_bound => heap[o].parent = i
              /\ \A j \in 1..Len(heap) : HoldsFilter(j, o) => j = i
    /\ \A o \in 1..Len(heap) :
          heap[o].is_bound =>
              /\ heap[o].parent # 0
              /\ \E k \in 1..Len(heap[heap[o].parent].local.v) :
                    heap[heap[o].parent].local.v[k]
                    = [name |-> heap[o].name, id |-> o]

\* a request's filterset and another filterset are in the loop that binds
\* their filters at the same time, each with one filter bound
C21_Witness ==
    \E i, j \in 1..Len(heap) :
        /\ i # j
        /\ heap[i].local.active /\ heap[i].local.pos = 2
        /\ heap[j].local.active /\ heap[j].local.pos = 2
        /\ heap[i].cls = "FooFilterSet"
        /\ heap[j].cls \in {"FooFilterSet", "BarFilterSet"}

====
